---- MODULE Spec2Model ----
(***************************************************************************)
(* Verification model of parts of SLEPc:                                   *)
(*   - BV column borrowing (BVGetColumn / BVRestoreColumn),                *)
(*   - ST shift and matrix management with the shift-and-invert type,      *)
(*   - the control flow of the CISS eigensolver (EPSSolve_CISS),           *)
(*   - FN matrix-function evaluation with the iterative square roots,      *)
(*   - the cyclic SVD driver,                                              *)
(*   - the Arnoldi factorization, the nonlinear Arnoldi solver and the     *)
(*     Krylov convergence loop.                                            *)
(* Each component has its own specification; the variables of the other    *)
(* components stay at their initial values.                                *)
(***************************************************************************)
EXTENDS Integers, FiniteSets, Sequences, TLC

VARIABLES bv, vecstate, held, bvret, st, mats, stret, ctx, eps, loc, Y, fn, svd, arn, nep, kc, slv, cyc, cs, act, isp

bvvars == <<bv, vecstate, held, bvret>>
stvars == <<st, mats, stret>>
cissvars == <<ctx, eps, loc, Y>>

vars == <<bv, vecstate, held, bvret, st, mats, stret, ctx, eps, loc, Y, fn, svd, arn, nep, kc, slv, cyc, cs, act, isp>>

(***************************************************************************)
(* Bounds                                                                  *)
(***************************************************************************)
\* largest number of columns of the BV
MaxCols == 3
\* largest object state a borrowed Vec reaches by user writes
MaxVecState == 2
\* matrices that exist besides the ST (candidates for A and B)
NumMats == 2
\* shifts are drawn from 0..MaxShift
MaxShift == 2
\* largest object state a matrix reaches by in-place shifting
MaxMatState == 4
MaxInitState == 1
\* CISS: block sizes L and L_max are drawn from 1..MaxBlock
MaxBlock == 2
\* CISS: the moment degree M is drawn from 1..MaxMoment
MaxMoment == 2
\* CISS: the refinement counts are drawn from 0..MaxRefine
MaxRefine == 2
\* FN: number of FNEvaluateFunctionMat calls made on the FN
MaxCalls == 2
\* SVD: nonzero singular values and norms are drawn from 1..MaxSing
MaxSing == 2
\* SVD: the embedded eigensolver returns at most MaxConv eigenvalues
MaxConv == 2
\* SVD: number of MatMult_Cyclic calls that end in an error
MaxMults == 2
\* Krylov: an Arnoldi run asks for at most MaxNv steps
MaxNv == 4
\* Krylov: residual estimates are drawn from 1..MaxRes
MaxRes == 2
\* NEP/PEP: number of solve calls on one solver object
MaxSolves == 2
\* SVD cyclic: largest number of requested singular values
MaxNsv == 2
\* NArnoldi: how far max_it may exceed ncv
MaxExtraIts == 1
\* SVD cyclic: largest number of initial vectors on either side
MaxInit == 3
\* CISS: the scaled eigenvalue-count estimate is drawn from 0..MaxEst
MaxEst == 3
\* CISS: number of quadrature points solved (num_solve_point)
NumPoints == 2
\* CISS: dimension of the matrices (eps->n)
MatDim == 6

Max(a, b) == IF a >= b THEN a ELSE b
Min(a, b) == IF a <= b THEN a ELSE b

(***************************************************************************)
(* BV: bv->m, bv->ci[2], bv->st[2], bv->id[2], the object state of the BV  *)
(***************************************************************************)
Slots == 0..1

\* object id of the Vec bv->cv[l] that slot l hands out; 0 is "no object"
CvId(l) == l + 1
\* a Vec that does not come from the BV (BVGetVec, VecDuplicate)
ForeignVec == CvId(1) + 1
VecIds == {CvId(0), CvId(1), ForeignVec}

\* the columns fetched and not yet restored
Borrowed == {bv.ci[l] : l \in Slots} \ {-1}

\* bvimpl.h: the first free slot, or -1 when both are taken
BVAvailableVec == IF bv.ci[0] = -1 THEN 0 ELSE IF bv.ci[1] = -1 THEN 1 ELSE -1

BVInitIn(sizes) ==
  /\ \E m \in sizes :
       bv = [m |-> m, ci |-> [l \in Slots |-> -1], st |-> [l \in Slots |-> -1],
             id |-> [l \in Slots |-> 0], state |-> 0]
  /\ vecstate = [l \in Slots |-> 0]
  /\ held = [j \in 0..(MaxCols - 1) |-> 0]
  /\ bvret = [op |-> "BVCreate", j |-> 0, v |-> 0, ierr |-> "OK"]

BVInit == BVInitIn(1..MaxCols)

BVFail(op, j, v, err) ==
  /\ bvret' = [op |-> op, j |-> j, v |-> v, ierr |-> err]
  /\ UNCHANGED <<bv, vecstate, held>>

\* the same routine without the "already fetched" test
BVGetColumn_NoDupCheck(j) ==
  IF j < 0 THEN BVFail("BVGetColumn", j, 0, "PETSC_ERR_ARG_OUTOFRANGE")
  ELSE IF j >= bv.m THEN BVFail("BVGetColumn", j, 0, "PETSC_ERR_ARG_OUTOFRANGE")
  ELSE LET l == BVAvailableVec IN
    IF l = -1 THEN BVFail("BVGetColumn", j, 0, "PETSC_ERR_SUP")
    ELSE /\ bv' = [bv EXCEPT !.ci[l] = j, !.st[l] = vecstate[l], !.id[l] = CvId(l)]
         /\ held' = [held EXCEPT ![j] = CvId(l)]
         /\ bvret' = [op |-> "BVGetColumn", j |-> j, v |-> CvId(l), ierr |-> "OK"]
         /\ UNCHANGED vecstate

BVGetColumn(j) ==
  IF j < 0 THEN BVFail("BVGetColumn", j, 0, "PETSC_ERR_ARG_OUTOFRANGE")
  ELSE IF j >= bv.m THEN BVFail("BVGetColumn", j, 0, "PETSC_ERR_ARG_OUTOFRANGE")
  ELSE IF j = bv.ci[0] \/ j = bv.ci[1] THEN BVFail("BVGetColumn", j, 0, "PETSC_ERR_SUP")
  ELSE LET l == BVAvailableVec IN
    IF l = -1 THEN BVFail("BVGetColumn", j, 0, "PETSC_ERR_SUP")
    ELSE /\ bv' = [bv EXCEPT !.ci[l] = j, !.st[l] = vecstate[l], !.id[l] = CvId(l)]
         /\ held' = [held EXCEPT ![j] = CvId(l)]
         /\ bvret' = [op |-> "BVGetColumn", j |-> j, v |-> CvId(l), ierr |-> "OK"]
         /\ UNCHANGED vecstate

\* the same routine without the comparison of the Vec's id
BVRestoreColumn_NoIdCheck(j, v) ==
  IF j < 0 THEN BVFail("BVRestoreColumn", j, v, "PETSC_ERR_ARG_OUTOFRANGE")
  ELSE IF j >= bv.m THEN BVFail("BVRestoreColumn", j, v, "PETSC_ERR_ARG_OUTOFRANGE")
  ELSE IF j # bv.ci[0] /\ j # bv.ci[1] THEN BVFail("BVRestoreColumn", j, v, "PETSC_ERR_ARG_WRONG")
  ELSE LET l == IF j = bv.ci[0] THEN 0 ELSE 1 IN
         /\ bv' = [bv EXCEPT !.state = IF vecstate[l] # bv.st[l] THEN @ + 1 ELSE @,
                             !.ci[l] = -1, !.st[l] = -1, !.id[l] = 0]
         /\ held' = [held EXCEPT ![j] = 0]
         /\ bvret' = [op |-> "BVRestoreColumn", j |-> j, v |-> v, ierr |-> "OK"]
         /\ UNCHANGED vecstate

BVRestoreColumn(j, v) ==
  IF j < 0 THEN BVFail("BVRestoreColumn", j, v, "PETSC_ERR_ARG_OUTOFRANGE")
  ELSE IF j >= bv.m THEN BVFail("BVRestoreColumn", j, v, "PETSC_ERR_ARG_OUTOFRANGE")
  ELSE IF j # bv.ci[0] /\ j # bv.ci[1] THEN BVFail("BVRestoreColumn", j, v, "PETSC_ERR_ARG_WRONG")
  ELSE LET l == IF j = bv.ci[0] THEN 0 ELSE 1 IN
    IF v # bv.id[l] THEN BVFail("BVRestoreColumn", j, v, "PETSC_ERR_ARG_WRONG")
    ELSE /\ bv' = [bv EXCEPT !.state = IF vecstate[l] # bv.st[l] THEN @ + 1 ELSE @,
                             !.ci[l] = -1, !.st[l] = -1, !.id[l] = 0]
         /\ held' = [held EXCEPT ![j] = 0]
         /\ bvret' = [op |-> "BVRestoreColumn", j |-> j, v |-> v, ierr |-> "OK"]
         /\ UNCHANGED vecstate

\* the caller writes into a column it holds: the Vec's object state increases
VecModify(l) ==
  /\ bv.ci[l] # -1
  /\ vecstate[l] < MaxVecState
  /\ vecstate' = [vecstate EXCEPT ![l] = @ + 1]
  /\ bvret' = [op |-> "VecModify", j |-> bv.ci[l], v |-> CvId(l), ierr |-> "OK"]
  /\ UNCHANGED <<bv, held>>

BVOnly == UNCHANGED <<stvars, cissvars, fn, svd, arn, nep, kc, slv, cyc, cs, act, isp>>

BVNext ==
  \/ \E j \in -1..MaxCols : BVGetColumn(j) /\ BVOnly
  \/ \E j \in -1..MaxCols, v \in VecIds : BVRestoreColumn(j, v) /\ BVOnly
  \/ \E l \in Slots : VecModify(l) /\ BVOnly

(***************************************************************************)
(* Matrices.  A matrix is modelled by one entry (a 1x1 matrix), which is   *)
(* enough to tell A, A - sigma*B and A - sigma*I apart.  mats[m] is the    *)
(* list of the values the matrix has had: its object state is the number   *)
(* of changes so far and its value is the last element.                    *)
(***************************************************************************)
Mats == 1..NumMats
Shifts == 0..MaxShift

MatState(m) == Len(mats[m]) - 1
MatVal(m) == mats[m][Len(mats[m])]
\* the value matrix m had when its object state was s
MatValAt(m, s) == mats[m][s + 1]

\* MatAXPY(Y,a,X) and MatShift(Y,a): Y changes and its object state increases
MatAdd(ms, m, delta) ==
  IF delta = 0 THEN ms ELSE [ms EXCEPT ![m] = Append(@, @[Len(@)] + delta)]

\* the arrays STSetMatrices may be given: n distinct matrices
MatLists(n) == {a \in [0..(n - 1) -> Mats] : \A i, k \in 0..(n - 1) : i # k => a[i] # a[k]}

(***************************************************************************)
(* ST with the shift-and-invert type.  st.state is st->state of stfunc.c;  *)
(* sinvert.c calls the same flag st->setupcalled (0 = not set up) and the  *)
(* mat-mode st->shift_matrix.                                              *)
(***************************************************************************)
NoMat == [kind |-> "null", val |-> 0]

\* the entry of T[1] (and of P, which refers to T[1])
TVal(s, ms) ==
  IF s.T1.kind = "alias" THEN ms[s.A[0]][Len(ms[s.A[0]])] ELSE s.T1.val

\* the entry of B, or of the identity for a standard problem
BVal(s, ms) == IF s.nmat > 1 THEN ms[s.A[1]][Len(ms[s.A[1]])] ELSE 1

STInitIn(modes, states) ==
  /\ \E mode \in modes :
       st = [nmat |-> 0, A |-> [i \in 0..1 |-> 0], Astate |-> [i \in 0..1 |-> 0],
             sigma |-> 0, defsigma |-> 0, sigma_set |-> FALSE, state |-> "INITIAL",
             matmode |-> mode, T1 |-> NoMat, ksp |-> NoMat, opready |-> FALSE]
  /\ \E k \in [Mats -> states] :
       mats = [m \in Mats |-> [i \in 1..(k[m] + 1) |-> m + 1 + i]]
  /\ stret = [op |-> "STCreate", arg |-> 0, ierr |-> "OK"]

STInit == STInitIn({"COPY"}, 0..MaxInitState)

STInplaceInit == STInitIn({"INPLACE"}, {0})

\* the last call made on the ST: its name, its scalar argument, its return code
STRet(op, arg, err) == [op |-> op, arg |-> arg, ierr |-> err]

\* STReset: T, A, P destroyed, the KSP reset, state initial
STReset(s) ==
  [s EXCEPT !.nmat = 0, !.A = [i \in 0..1 |-> 0], !.T1 = NoMat, !.ksp = NoMat,
            !.state = "INITIAL", !.opready = FALSE]

\* the same comparison looking at the number of matrices only
STSameList_LengthOnly(n, A) == st.state # "INITIAL" /\ n = st.nmat

\* the test "same" of STSetMatrices
STSameList(n, A) ==
  /\ st.state # "INITIAL"
  /\ n = st.nmat
  /\ \A i \in 0..(n - 1) : A[i] = st.A[i]

STSetMatrices(n, A) ==
  IF n <= 0 THEN
    /\ stret' = STRet("STSetMatrices", n, "PETSC_ERR_ARG_OUTOFRANGE")
    /\ UNCHANGED <<st, mats>>
  ELSE
    LET same == STSameList(n, A)
        s1 == IF st.state # "INITIAL" /\ ~same THEN STReset(st) ELSE st
    IN
    /\ st' = [s1 EXCEPT !.A = [i \in 0..1 |-> IF i < n THEN A[i] ELSE 0],
                        !.Astate = [i \in 0..1 |-> IF i < n THEN MatState(A[i])
                                                    ELSE IF n = 1 THEN 0 ELSE @[i]],
                        !.nmat = n,
                        !.state = IF same THEN "UPDATED" ELSE "INITIAL",
                        !.opready = FALSE]
    /\ stret' = STRet("STSetMatrices", n, "OK")
    /\ UNCHANGED mats

\* STMatGAXPY_Private(st,alpha,beta,1,1,initial) for nmat<3: T[1] = A + alpha*B.
\* COPY builds T[1] from A[0]; INPLACE makes T[1] refer to A[0] and adds
\* alpha*B (initial) or (alpha-beta)*B (shift change) to A[0] itself.
STMatGAXPY_Private(s, ms, alpha, beta, initial) ==
  IF s.matmode = "INPLACE" THEN
    LET gamma == IF initial THEN alpha ELSE alpha - beta IN
    [st |-> [s EXCEPT !.T1 = [kind |-> "alias", val |-> 0]],
     mats |-> MatAdd(ms, s.A[0], gamma * BVal(s, ms))]
  ELSE
    [st |-> [s EXCEPT !.T1 = [kind |-> "own",
                               val |-> ms[s.A[0]][Len(ms[s.A[0]])] + alpha * BVal(s, ms)]],
     mats |-> ms]

\* the same call leaving the solver as it was
KSPSetOperators_Skipped(r) == r

\* KSPSetOperators(st->ksp,st->P,st->P,...) and KSPSetUp: the solver is built
\* for the entries P has now
KSPSetOperators(r) ==
  [r EXCEPT !.st.ksp = [kind |-> "own", val |-> TVal(r.st, r.mats)]]

\* STSetUp_Sinvert for nmat<3
STSetUp_Sinvert(s, ms) ==
  LET s1 == IF ~s.sigma_set THEN [s EXCEPT !.sigma = s.defsigma] ELSE s
  IN KSPSetOperators(STMatGAXPY_Private(s1, ms, -s1.sigma, 0, TRUE))

\* the same routine rebuilding for the shift it is leaving
STSetShift_Sinvert_OldShift(s, ms, newshift) ==
  IF s.state = "INITIAL" THEN [st |-> s, mats |-> ms]
  ELSE KSPSetOperators(STMatGAXPY_Private(s, ms, -s.sigma, -s.sigma, FALSE))

\* STSetShift_Sinvert for nmat<3
STSetShift_Sinvert(s, ms, newshift) ==
  IF s.state = "INITIAL" THEN [st |-> s, mats |-> ms]
  ELSE KSPSetOperators(STMatGAXPY_Private(s, ms, -newshift, -s.sigma, FALSE))

\* an in-place change of A[0] must stay below the bound on its object state
InPlaceRoom == st.matmode = "INPLACE" => MatState(st.A[0]) < MaxMatState

STSetShift(shift) ==
  /\ st.sigma # shift /\ st.state = "SETUP" => InPlaceRoom
  /\ LET r == IF st.sigma # shift
              THEN LET q == IF st.state = "SETUP"
                            THEN STSetShift_Sinvert(st, mats, shift)
                            ELSE [st |-> st, mats |-> mats]
                   IN [q EXCEPT !.st.sigma = shift]
              ELSE [st |-> st, mats |-> mats]
     IN /\ st' = [r.st EXCEPT !.sigma_set = TRUE]
        /\ mats' = r.mats
  /\ stret' = STRet("STSetShift", shift, "OK")

\* a getter that reads the default shift
STGetShift_Default ==
  /\ stret' = STRet("STGetShift", st.defsigma, "OK")
  /\ UNCHANGED <<st, mats>>

\* STGetShift: *shift = st->sigma
STGetShift ==
  /\ stret' = STRet("STGetShift", st.sigma, "OK")
  /\ UNCHANGED <<st, mats>>

STSetDefaultShift(defaultshift) ==
  /\ st' = IF st.defsigma # defaultshift
           THEN [st EXCEPT !.defsigma = defaultshift, !.state = "INITIAL", !.opready = FALSE]
           ELSE st
  /\ stret' = STRet("STSetDefaultShift", defaultshift, "OK")
  /\ UNCHANGED mats

STScaleShift(factor) ==
  /\ st.sigma * factor \in Shifts
  /\ st' = [st EXCEPT !.sigma = @ * factor]
  /\ stret' = STRet("STScaleShift", factor, "OK")
  /\ UNCHANGED mats

\* STSetUp: nothing to do when already set up; otherwise the type's setup
\* builds T and P and the state becomes SETUP
STSetUp ==
  IF st.nmat = 0 THEN
    /\ stret' = STRet("STSetUp", 0, "PETSC_ERR_ARG_WRONGSTATE")
    /\ UNCHANGED <<st, mats>>
  ELSE IF st.state = "SETUP" THEN
    /\ stret' = STRet("STSetUp", 0, "OK")
    /\ UNCHANGED <<st, mats>>
  ELSE
    /\ InPlaceRoom
    /\ LET r == STSetUp_Sinvert(st, mats) IN
         /\ st' = [r.st EXCEPT !.state = "SETUP"]
         /\ mats' = r.mats
    /\ stret' = STRet("STSetUp", 0, "OK")

\* the same routine subtracting the shift once more
STPostSolve_Sinvert_WrongSign(s, ms) ==
  IF s.matmode = "INPLACE" THEN
    LET ms1 == MatAdd(ms, s.A[0], (0 - s.sigma) * BVal(s, ms)) IN
    [st |-> [s EXCEPT !.Astate[0] = Len(ms1[s.A[0]]) - 1, !.state = "INITIAL"],
     mats |-> ms1]
  ELSE [st |-> s, mats |-> ms]

\* STPostSolve_Sinvert for nmat<3
STPostSolve_Sinvert(s, ms) ==
  IF s.matmode = "INPLACE" THEN
    LET ms1 == MatAdd(ms, s.A[0], s.sigma * BVal(s, ms)) IN
    [st |-> [s EXCEPT !.Astate[0] = Len(ms1[s.A[0]]) - 1, !.state = "INITIAL"],
     mats |-> ms1]
  ELSE [st |-> s, mats |-> ms]

\* STPostSolve: the type's postsolve, called at the end of a solve
STPostSolve ==
  /\ st.nmat > 0
  /\ InPlaceRoom
  /\ LET r == STPostSolve_Sinvert(st, mats) IN
       /\ st' = r.st
       /\ mats' = r.mats
  /\ stret' = STRet("STPostSolve", 0, "OK")

STOnly == UNCHANGED <<bvvars, cissvars, fn, svd, arn, nep, kc, slv, cyc, cs, act, isp>>

STNext ==
  \/ \E n \in 0..2 : \E A \in MatLists(n) : STSetMatrices(n, A) /\ STOnly
  \/ \E shift \in Shifts : STSetShift(shift) /\ STOnly
  \/ STGetShift /\ STOnly
  \/ \E d \in Shifts : STSetDefaultShift(d) /\ STOnly
  \/ \E f \in Shifts : STScaleShift(f) /\ STOnly
  \/ STSetUp /\ STOnly
  \/ STPostSolve /\ STOnly

\* mat-mode INPLACE used as documented: the matrices are given once, and
\* STPostSolve ends each solve before the next STSetUp
STInplaceNext ==
  \/ \E n \in 1..2 : \E A \in MatLists(n) : st.nmat = 0 /\ STSetMatrices(n, A) /\ STOnly
  \/ \E shift \in Shifts : STSetShift(shift) /\ STOnly
  \/ st.state # "SETUP" /\ STSetUp /\ STOnly
  \/ st.state = "SETUP" /\ STPostSolve /\ STOnly

(***************************************************************************)
(* CISS: the control flow of EPSSolve_CISS.  ctx holds the fields of       *)
(* EPS_CISS, eps those of the EPS, loc the local variables of the routine, *)
(* its position (pc) and counts of what it has done; Y is the set of       *)
(* solution columns <<quadrature point, column, right-hand side>> solved.  *)
(***************************************************************************)
\* the eigenvalues of the pencil, as <<real part, imaginary part>>
Spectrum == {<<1, 0>>, <<2, 0>>, <<3, 0>>, <<2, 1>>}
\* values a computed Ritz value can take: the eigenvalues and a spurious value
Points == Spectrum \cup {<<6, 0>>}
\* the regions tried: centre, radius and 1/vscale
Regions == {[center |-> <<2, 0>>, radius |-> 1, vinv |-> 1],
            [center |-> <<2, 0>>, radius |-> 1, vinv |-> 2],
            [center |-> <<4, 0>>, radius |-> 1, vinv |-> 1],
            [center |-> <<6, 0>>, radius |-> 1, vinv |-> 1]}

\* lam lies in the ellipse (Re d)^2 + (Im d / vscale)^2 <= 1, d = (lam - c)/radius
InEllipse(c, lam) ==
  (lam[1] - c.center[1]) * (lam[1] - c.center[1])
    + ((lam[2] - c.center[2]) * c.vinv) * ((lam[2] - c.center[2]) * c.vinv)
    <= c.radius * c.radius

\* number of eigenvalues of the pencil inside the region
NumInside(c) == Cardinality({lam \in Spectrum : InEllipse(c, lam)})

\* isInsideGamma for one computed eigenvalue: dx*dx + (dy*dy)/(vscale*vscale) <= 1
isInsideGamma(c, lam) ==
  LET dx == lam[1] - c.center[1]
      dy == lam[2] - c.center[2]
  IN dx * dx + (dy * dy) * (c.vinv * c.vinv) <= c.radius * c.radius

CeilDiv(a, b) == (a + b - 1) \div b

\* EstimateNumberEigs: est stands for est_eig*eta
EstimateNumberEigs(c, est) ==
  LET a == CeilDiv(est, c.M) - c.L
      b == IF a < 0 THEN 0 ELSE a
  IN IF b > c.L_max - c.L THEN c.L_max - c.L ELSE b

\* the singular values DSSolve returns for a moment matrix, largest first:
\* as many nonzero ones as there are eigenvalues inside the region
SingularValue(c, i) == IF i < NumInside(c) THEN 1 ELSE 0

\* the same count taking a zero singular value for a nonzero one
SVD_CountsZeros(c, e) ==
  LET ml == c.L * c.M
      k == Min(e.n, ml)
  IN [K |-> Cardinality({i \in 0..(k - 1) :
                           SingularValue(c, i) * c.deltainv >= 0}),
      sigma0 |-> SingularValue(c, 0)]

\* SVD: K = number of i<k with sigma[i]/max(sigma[0],1) > delta, delta = 1/deltainv
SVD(c, e) ==
  LET ml == c.L * c.M
      k == Min(e.n, ml)
  IN [K |-> Cardinality({i \in 0..(k - 1) :
                           SingularValue(c, i) * c.deltainv > Max(SingularValue(c, 0), 1)}),
      sigma0 |-> SingularValue(c, 0)]

\* ctx->sigma[0] > ctx->delta
AboveDelta(c, sigma0) == sigma0 * c.deltainv > 1

\* the columns Y[i*L_max+j], i < num_solve_point, j in [js,je), solved with rhs
SolveCols(y, js, je, rhs) ==
  y \cup {<<i, j, rhs>> : i \in 0..(NumPoints - 1), j \in js..(je - 1)}

\* Y has num_solve_point*L_max entries: a column j >= L_max of the last point
\* lies outside the array
OutsideY(c, je) == (NumPoints - 1) * c.L_max + (je - 1) >= NumPoints * c.L_max

\* what a batch of KSPSolve calls can do: succeed, report divergence in the KSP's
\* reason (the call still returns 0), or return an error code; a write outside
\* Y may also end the process
SolveOutcomes(c, je) ==
  {"ok", "diverged", "error"} \cup (IF OutsideY(c, je) THEN {"crash"} ELSE {})

Aborts(o) == o \in {"error", "crash"}

Noted(e, o) == IF o = "diverged" THEN [e EXCEPT !.kspdiverged = TRUE] ELSE e

CISSInitIn(blocks, moments, refines, regions, nmats) ==
  /\ \E L \in blocks, M \in moments, ri \in refines, ro \in refines, rb \in refines,
        r \in regions :
       \E Lmax \in {x \in blocks : x >= L} :
         ctx = [center |-> r.center, radius |-> r.radius, vinv |-> r.vinv,
                L |-> L, L_max |-> Lmax, M |-> M, deltainv |-> 10,
                refine_inner |-> ri, refine_outer |-> ro, refine_blocksize |-> rb]
  /\ \E nmat \in nmats :
       eps = [n |-> MatDim, nmat |-> nmat, ncv |-> Min(MatDim, ctx.L * ctx.M), nconv |-> 0,
              reason |-> "EPS_CONVERGED_ITERATING", kspdiverged |-> FALSE]
  /\ loc = [pc |-> "start", L_base |-> ctx.L, L_add |-> 0, i |-> 0, inner |-> 0,
            outer |-> 0, nv |-> 0, sigma0 |-> 0, errok |-> TRUE,
            hankel |-> 0, grown |-> 0, ranks |-> 0, resolved |-> 0, refined |-> 0,
            passes |-> 0]
  /\ Y = {}

CISSInit == CISSInitIn(1..MaxBlock, 1..MaxMoment, 0..MaxRefine, Regions, 1..2)

\* up to the call of EstimateNumberEigs: SetPathParameter, the random block V,
\* SolveLinearSystem, ConstructS(1), EstimateNumberEigs
CISS_Begin ==
  /\ loc.pc = "start"
  /\ \E o \in SolveOutcomes(ctx, ctx.L), est \in 0..MaxEst :
       IF Aborts(o) THEN
         /\ loc' = [loc EXCEPT !.pc = o]
         /\ UNCHANGED <<ctx, eps, Y>>
       ELSE
         /\ Y' = SolveCols(Y, 0, ctx.L, IF eps.nmat = 2 THEN "BV" ELSE "V")
         /\ loc' = [loc EXCEPT !.pc = "estgrow", !.L_add = EstimateNumberEigs(ctx, est)]
         /\ eps' = Noted(eps, o)
         /\ UNCHANGED ctx

\* SolveAddLinearSystem(eps,js,je) followed by what the caller does next
SolveAdd(js, je, o, ctxNext, locNext) ==
  IF Aborts(o) THEN
    /\ loc' = [loc EXCEPT !.pc = o]
    /\ UNCHANGED <<ctx, eps, Y>>
  ELSE
    /\ Y' = SolveCols(Y, js, je, "V")
    /\ ctx' = ctxNext
    /\ loc' = locNext
    /\ eps' = Noted(eps, o)

\* if (L_add>0): SetAddVector, SolveAddLinearSystem, ctx->L += L_add
CISS_EstGrow ==
  /\ loc.pc = "estgrow"
  /\ IF loc.L_add > 0 THEN
       \E o \in SolveOutcomes(ctx, ctx.L + loc.L_add) :
         SolveAdd(ctx.L, ctx.L + loc.L_add, o,
                  [ctx EXCEPT !.L = @ + loc.L_add],
                  [loc EXCEPT !.pc = "block", !.i = 0])
     ELSE
       /\ loc' = [loc EXCEPT !.pc = "block", !.i = 0]
       /\ UNCHANGED <<ctx, eps, Y>>

\* the same loop step with the loop test i <= refine_blocksize
CISS_Block_OneMore ==
  /\ loc.pc = "block"
  /\ IF loc.i <= ctx.refine_blocksize THEN
       LET s == SVD(ctx, eps) IN
       IF ~AboveDelta(ctx, s.sigma0) \/ s.K < ctx.L * ctx.M THEN
         /\ loc' = [loc EXCEPT !.pc = "alloc", !.nv = s.K, !.sigma0 = s.sigma0,
                               !.hankel = @ + 1]
         /\ UNCHANGED <<ctx, eps, Y>>
       ELSE
         \E o \in SolveOutcomes(ctx, ctx.L + loc.L_base) :
           SolveAdd(ctx.L, ctx.L + loc.L_base, o,
                    [ctx EXCEPT !.L = @ + loc.L_base],
                    [loc EXCEPT !.nv = s.K, !.sigma0 = s.sigma0, !.hankel = @ + 1,
                                !.L_add = loc.L_base, !.grown = @ + 1, !.i = @ + 1])
     ELSE
       /\ loc' = [loc EXCEPT !.pc = "alloc"]
       /\ UNCHANGED <<ctx, eps, Y>>

\* one test and one pass of for (i=0;i<ctx->refine_blocksize;i++): CalcMu,
\* BlockHankel, SVD(H0); break, or grow L by L_base
CISS_Block ==
  /\ loc.pc = "block"
  /\ IF loc.i < ctx.refine_blocksize THEN
       LET s == SVD(ctx, eps) IN
       IF ~AboveDelta(ctx, s.sigma0) \/ s.K < ctx.L * ctx.M THEN
         /\ loc' = [loc EXCEPT !.pc = "alloc", !.nv = s.K, !.sigma0 = s.sigma0,
                               !.hankel = @ + 1]
         /\ UNCHANGED <<ctx, eps, Y>>
       ELSE
         \E o \in SolveOutcomes(ctx, ctx.L + loc.L_base) :
           SolveAdd(ctx.L, ctx.L + loc.L_base, o,
                    [ctx EXCEPT !.L = @ + loc.L_base],
                    [loc EXCEPT !.nv = s.K, !.sigma0 = s.sigma0, !.hankel = @ + 1,
                                !.L_add = loc.L_base, !.grown = @ + 1, !.i = @ + 1])
     ELSE
       /\ loc' = [loc EXCEPT !.pc = "alloc"]
       /\ UNCHANGED <<ctx, eps, Y>>

\* if (ctx->L != L_base): the solution and the DS are allocated again; then
\* the outer loop starts
CISS_Realloc ==
  /\ loc.pc = "alloc"
  /\ eps' = IF ctx.L # loc.L_base THEN [eps EXCEPT !.ncv = Min(eps.n, ctx.L * ctx.M)] ELSE eps
  /\ loc' = [loc EXCEPT !.pc = "inner", !.outer = 0, !.inner = 0, !.resolved = 0,
                        !.passes = 1]
  /\ UNCHANGED <<ctx, Y>>

\* one pass of for (inner=0;inner<=ctx->refine_inner;inner++): ConstructS,
\* SVD(S); re-solve with V = S[:, :L], or break
CISS_Inner ==
  /\ loc.pc = "inner"
  /\ LET s == SVD(ctx, eps) IN
     IF AboveDelta(ctx, s.sigma0) /\ s.K = ctx.L * ctx.M /\ loc.inner # ctx.refine_inner THEN
       \E o \in SolveOutcomes(ctx, ctx.L) :
         SolveAdd(0, ctx.L, o, ctx,
                  [loc EXCEPT !.nv = s.K, !.sigma0 = s.sigma0, !.ranks = @ + 1,
                              !.resolved = @ + 1, !.inner = @ + 1])
     ELSE
       /\ loc' = [loc EXCEPT !.nv = s.K, !.sigma0 = s.sigma0, !.ranks = @ + 1,
                             !.pc = "extract"]
       /\ UNCHANGED <<ctx, eps, Y>>

\* the rest of one pass of the outer loop: nconv = 0, break if nv = 0;
\* Rayleigh-Ritz, the filter with isInsideGamma and tau, the residuals; break
\* if max_error <= tol or outer = refine_outer; else a new V and a re-solve
CISS_Extract ==
  /\ loc.pc = "extract"
  /\ IF loc.nv = 0 THEN
       /\ eps' = [eps EXCEPT !.nconv = 0]
       /\ loc' = [loc EXCEPT !.pc = "finish"]
       /\ UNCHANGED <<ctx, Y>>
     ELSE
       \E ritz \in SUBSET Points :
         /\ Cardinality(ritz) >= 1 /\ Cardinality(ritz) <= loc.nv
         /\ \E nacc \in 0..Cardinality({lam \in ritz : isInsideGamma(ctx, lam)}) :
            \E ok \in (IF nacc = 0 THEN {TRUE} ELSE BOOLEAN) :
              IF ok \/ loc.outer = ctx.refine_outer THEN
                /\ eps' = [eps EXCEPT !.nconv = nacc]
                /\ loc' = [loc EXCEPT !.pc = "finish", !.errok = ok]
                /\ UNCHANGED <<ctx, Y>>
              ELSE
                \E o \in SolveOutcomes(ctx, ctx.L) :
                  IF Aborts(o) THEN
                    /\ eps' = [eps EXCEPT !.nconv = nacc]
                    /\ loc' = [loc EXCEPT !.pc = o, !.errok = ok]
                    /\ UNCHANGED <<ctx, Y>>
                  ELSE
                    /\ Y' = SolveCols(Y, 0, ctx.L, "V")
                    /\ eps' = Noted([eps EXCEPT !.nconv = nacc], o)
                    /\ loc' = [loc EXCEPT !.errok = ok, !.refined = @ + 1,
                                          !.outer = @ + 1, !.inner = 0, !.resolved = 0,
                                          !.passes = @ + 1, !.pc = "inner"]
                    /\ UNCHANGED ctx

\* eps->reason = EPS_CONVERGED_TOL
CISS_Finish ==
  /\ loc.pc = "finish"
  /\ eps' = [eps EXCEPT !.reason = "EPS_CONVERGED_TOL"]
  /\ loc' = [loc EXCEPT !.pc = "done"]
  /\ UNCHANGED <<ctx, Y>>

CISSOnly == UNCHANGED <<bvvars, stvars, fn, svd, arn, nep, kc, slv, cyc, cs, act, isp>>

CISSNext ==
  \/ CISS_Begin /\ CISSOnly
  \/ CISS_EstGrow /\ CISSOnly
  \/ CISS_Block /\ CISSOnly
  \/ CISS_Realloc /\ CISSOnly
  \/ CISS_Inner /\ CISSOnly
  \/ CISS_Extract /\ CISSOnly
  \/ CISS_Finish /\ CISSOnly

(***************************************************************************)
(* FN: matrix function evaluation (FNEvaluateFunctionMat) with the         *)
(* iterative square-root methods.  The residual ||I-M||_F of a pass is     *)
(* "le" (<= tol), "gt" (> tol) or "nan" (compares false both ways).        *)
(***************************************************************************)
\* iteration cap of the Denman-Beavers square root
DBMAXIT == 25
\* iteration cap of the Sadeghi square root
MAXIT == 50

Methods == {"DBP", "Sadeghi"}

Cap(method) == IF method = "DBP" THEN DBMAXIT ELSE MAXIT

\* FNCreate: alpha = 1, no work matrix
FNInit ==
  fn = [alive |-> TRUE, alpha |-> 1, W |-> FALSE, pc |-> "idle", method |-> "DBP",
        it |-> 0, converged |-> FALSE, Mres |-> "unset", ierr |-> "OK",
        why |-> "none", calls |-> 0]

FNSetScale(alpha) ==
  /\ fn.alive /\ fn.pc = "idle"
  /\ fn' = [fn EXCEPT !.alpha = alpha]

\* FNEvaluateFunctionMat up to the dispatch to the method: argument checks,
\* then the scaled copy of A in fn->W when alpha # 1
FNEvaluateFunctionMat(method, sameAB, alloc) ==
  /\ fn.alive /\ fn.pc = "idle" /\ fn.calls < MaxCalls
  /\ LET base == [fn EXCEPT !.calls = @ + 1, !.method = method, !.it = 0,
                            !.converged = FALSE, !.Mres = "unset"]
     IN  IF sameAB
         THEN fn' = [base EXCEPT !.ierr = "PETSC_ERR_ARG_WRONG", !.why = "args"]
         ELSE IF fn.alpha # 1 /\ alloc = "fail"
         THEN fn' = [base EXCEPT !.ierr = "PETSC_ERR_MEM", !.why = "alloc"]
         ELSE fn' = [base EXCEPT !.W = (fn.W \/ fn.alpha # 1), !.pc = "iter",
                                 !.ierr = "OK", !.why = "running",
                                 !.Mres = IF method = "Sadeghi" THEN "le" ELSE "unset"]

\* one pass of the loop  for (it=0; it<cap && !converged; it++)  of
\* SlepcSqrtmDenmanBeavers / FNSqrtmSadeghi; an error return leaves
\* FNEvaluateFunctionMat through CHKERRQ
SqrtmIterate(r) ==
  /\ fn.pc = "iter" /\ fn.it < Cap(fn.method) /\ ~fn.converged
  /\ IF r = "singular"
     THEN fn' = [fn EXCEPT !.pc = "idle", !.ierr = "PETSC_ERR_MAT_LU_ZRPVT", !.why = "lapack"]
     ELSE IF r = "nan" /\ fn.method = "Sadeghi"
     THEN fn' = [fn EXCEPT !.pc = "idle", !.Mres = r, !.ierr = "1", !.why = "nan"]
     ELSE fn' = [fn EXCEPT !.Mres = r, !.converged = (r = "le"), !.it = @ + 1]

\* loop exit:  if (Mres>tol) SETERRQ(PETSC_ERR_LIB, "SQRTM not converged");
\* otherwise the method returns 0 and FNEvaluateFunctionMat scales B and returns
SqrtmReturn ==
  /\ fn.pc = "iter" /\ ~(fn.it < Cap(fn.method) /\ ~fn.converged)
  /\ IF fn.Mres = "gt"
     THEN fn' = [fn EXCEPT !.pc = "idle", !.ierr = "PETSC_ERR_LIB", !.why = "notconverged"]
     ELSE fn' = [fn EXCEPT !.pc = "idle", !.ierr = "OK", !.why = "done"]

\* the destroy that forgets the work matrix
FNDestroy_KeepsW ==
  /\ fn.alive /\ fn.pc = "idle"
  /\ fn' = [fn EXCEPT !.alive = FALSE]

\* FNDestroy: MatDestroy(&fn->W) and the header
FNDestroy ==
  /\ fn.alive /\ fn.pc = "idle"
  /\ fn' = [fn EXCEPT !.alive = FALSE, !.W = FALSE]

FNOnly == UNCHANGED <<bvvars, stvars, cissvars, svd, arn, nep, kc, slv, cyc, cs, act, isp>>

FNNext ==
  \/ \E alpha \in 1..2 : FNSetScale(alpha) /\ FNOnly
  \/ \E method \in Methods, sameAB \in BOOLEAN, alloc \in {"ok", "fail"} :
       FNEvaluateFunctionMat(method, sameAB, alloc) /\ FNOnly
  \/ \E r \in {"singular", "le", "gt", "nan"} : SqrtmIterate(r) /\ FNOnly
  \/ SqrtmReturn /\ FNOnly
  \/ FNDestroy /\ FNOnly

(***************************************************************************)
(* Cyclic SVD driver (SVDSetUp_Cyclic, SVDSolve_Cyclic, MatMult_Cyclic).   *)
(* The matrix A is known by its nonzero singular values; a real number is  *)
(* a pair <<numerator, denominator>>.                                      *)
(***************************************************************************)
SingVals == 1..MaxSing

\* eigenvalues of the cyclic matrix C = [0 A; A' 0]
CSpectrum(svals) == {0} \cup svals \cup {-s : s \in svals}

EPSReasons == {"EPS_CONVERGED_TOL", "EPS_DIVERGED_ITS"}

SVDConvs == {"SVD_CONV_ABS", "SVD_CONV_REL", "SVD_CONV_NORM", "SVD_CONV_MAXIT", "SVD_CONV_USER"}

WorkVecs == {"x1", "x2", "y1", "y2"}

RECURSIVE SeqsUpTo(_, _)
SeqsUpTo(S, n) ==
  IF n = 0 THEN {<<>>}
  ELSE LET shorter == SeqsUpTo(S, n - 1)
       IN  shorter \cup {Append(q, e) : q \in {r \in shorter : Len(r) = n - 1}, e \in S}

SVDInitIn(gens, whichs, convs, usereps, svalsets) ==
  \E g \in gens, w \in whichs, c \in convs, u \in usereps, sv \in svalsets,
     na \in 1..MaxSing, nb \in 1..MaxSing,
     t \in {"EPS_CONV_ABS", "EPS_CONV_REL"} :
    \* the norms are read only by a generalized problem with SVD_CONV_NORM;
    \* a user's eigensolver comes with a test of its own
    /\ (~(g /\ c = "SVD_CONV_NORM") => (na = 1 /\ nb = 1))
    /\ (t = "EPS_CONV_ABS" <=> u)
    /\ svd = [isgeneralized |-> g, which |-> w, conv |-> c, usereps |-> u,
              svals |-> sv,
              normA |-> IF sv = {} THEN 0 ELSE na, normB |-> IF g THEN nb ELSE 0,
              nrma |-> 0, nrmb |-> 0,
              state |-> "initial", epstest |-> t, errest |-> <<0, 1>>,
              eigs |-> <<>>, sigma |-> <<>>, nconv |-> 0,
              epsreason |-> "EPS_CONVERGED_ITERATING",
              reason |-> "SVD_CONVERGED_ITERATING", ierr |-> "OK",
              placed |-> {}, bx |-> 0, by |-> 0, multerr |-> "none"]

SVDInit ==
  SVDInitIn(BOOLEAN, {"SVD_LARGEST", "SVD_SMALLEST"}, SVDConvs, BOOLEAN, SUBSET SingVals)

\* the setup that installs the custom test for every norm-relative request
SVDSetUp_Cyclic_CustomAlways ==
  /\ svd.state = "initial"
  /\ IF svd.usereps
     THEN svd' = [svd EXCEPT !.state = "setup", !.ierr = "OK"]
     ELSE IF svd.conv \in {"SVD_CONV_MAXIT", "SVD_CONV_USER"}
     THEN svd' = [svd EXCEPT !.ierr = "PETSC_ERR_SUP"]
     ELSE IF svd.conv = "SVD_CONV_NORM"
     THEN svd' = [svd EXCEPT !.state = "setup", !.ierr = "OK",
                             !.nrma = IF @ = 0 THEN svd.normA ELSE @,
                             !.nrmb = IF @ = 0 THEN svd.normB ELSE @,
                             !.epstest = "EPSConv_Cyclic"]
     ELSE svd' = [svd EXCEPT !.state = "setup", !.ierr = "OK",
                             !.epstest = IF svd.conv = "SVD_CONV_ABS"
                                         THEN "EPS_CONV_ABS" ELSE "EPS_CONV_REL"]

\* SVDSetUp_Cyclic: the part that configures the embedded eigensolver
SVDSetUp_Cyclic ==
  /\ svd.state = "initial"
  /\ IF svd.usereps
     THEN svd' = [svd EXCEPT !.state = "setup", !.ierr = "OK"]
     ELSE IF svd.conv \in {"SVD_CONV_MAXIT", "SVD_CONV_USER"}
     THEN svd' = [svd EXCEPT !.ierr = "PETSC_ERR_SUP"]
     ELSE IF svd.conv = "SVD_CONV_NORM" /\ svd.isgeneralized
     THEN svd' = [svd EXCEPT !.state = "setup", !.ierr = "OK",
                             !.nrma = IF @ = 0 THEN svd.normA ELSE @,
                             !.nrmb = IF @ = 0 THEN svd.normB ELSE @,
                             !.epstest = "EPSConv_Cyclic"]
     ELSE svd' = [svd EXCEPT !.state = "setup", !.ierr = "OK",
                             !.epstest = CASE svd.conv = "SVD_CONV_ABS" -> "EPS_CONV_ABS"
                                           [] svd.conv = "SVD_CONV_REL" -> "EPS_CONV_REL"
                                           [] OTHER -> "EPS_CONV_NORM"]

\* EPSConv_Cyclic: errest = res/PetscMax(nrma,nrmb), called by the embedded
\* eigensolver when it is the registered test
EPSConv_Cyclic(res) ==
  /\ svd.state = "setup" /\ svd.epstest = "EPSConv_Cyclic"
  /\ svd' = [svd EXCEPT !.errest = <<res, Max(svd.nrma, svd.nrmb)>>]

\* MatMult_Cyclic; fail names the MatMult that returns an error ("none": no
\* error).  VecPlaceArray on a vector whose array is still placed is an error.
MatMult_Cyclic(fail) ==
  /\ svd.state = "setup" /\ svd.bx < MaxMults
  /\ IF svd.placed # {}
     THEN svd' = [svd EXCEPT !.bx = @ + 1, !.by = @ + 1,
                             !.multerr = "PETSC_ERR_ARG_WRONGSTATE"]
     ELSE IF fail # "none"
     THEN svd' = [svd EXCEPT !.bx = @ + 1, !.by = @ + 1,
                             !.placed = WorkVecs, !.multerr = fail]
     ELSE svd' = [svd EXCEPT !.multerr = "OK"]

\* the recovery that keeps the eigenvalue itself in every case
RECURSIVE Recovered_NoReciprocal(_, _)
Recovered_NoReciprocal(eigs, reciprocal) ==
  IF eigs = <<>> THEN <<>>
  ELSE IF Head(eigs) > 0
       THEN <<<<Head(eigs), 1>>>> \o Recovered_NoReciprocal(Tail(eigs), reciprocal)
       ELSE Recovered_NoReciprocal(Tail(eigs), reciprocal)

\* the recovery that also keeps the zero eigenvalues
RECURSIVE Recovered_KeepsZeros(_, _)
Recovered_KeepsZeros(eigs, reciprocal) ==
  IF eigs = <<>> THEN <<>>
  ELSE IF Head(eigs) >= 0
       THEN <<IF reciprocal THEN <<1, Head(eigs)>> ELSE <<Head(eigs), 1>>>>
              \o Recovered_KeepsZeros(Tail(eigs), reciprocal)
       ELSE Recovered_KeepsZeros(Tail(eigs), reciprocal)

\* the loop of SVDSolve_Cyclic over the converged eigenvalues: those with
\* positive real part are kept, as sigma or as 1/sigma
RECURSIVE Recovered(_, _)
Recovered(eigs, reciprocal) ==
  IF eigs = <<>> THEN <<>>
  ELSE IF Head(eigs) > 0
       THEN <<IF reciprocal THEN <<1, Head(eigs)>> ELSE <<Head(eigs), 1>>>>
              \o Recovered(Tail(eigs), reciprocal)
       ELSE Recovered(Tail(eigs), reciprocal)

\* SVDSolve_Cyclic: EPSSolve returns the converged eigenvalues eigs and a reason
SVDSolve_Cyclic(eigs, reason) ==
  /\ svd.state = "setup"
  /\ LET sigma == Recovered(eigs, svd.isgeneralized /\ svd.which = "SVD_SMALLEST")
     IN  svd' = [svd EXCEPT !.state = "solved", !.eigs = eigs,
                            !.epsreason = reason, !.reason = reason,
                            !.sigma = sigma, !.nconv = Len(sigma)]

SVDOnly == UNCHANGED <<bvvars, stvars, cissvars, fn, arn, nep, kc, slv, cyc, cs, act, isp>>

SVDNext ==
  \/ SVDSetUp_Cyclic /\ SVDOnly
  \/ \E res \in 1..MaxSing : EPSConv_Cyclic(res) /\ SVDOnly
  \/ \E fail \in {"none", "A", "AT"} : MatMult_Cyclic(fail) /\ SVDOnly
  \/ \E eigs \in SeqsUpTo(CSpectrum(svd.svals), MaxConv), reason \in EPSReasons :
       SVDSolve_Cyclic(eigs, reason) /\ SVDOnly

(***************************************************************************)
(* Arnoldi factorization: BVMatArnoldi and EPSBasicArnoldi.  A run is a    *)
(* call followed by its steps; lindep is the outcome of the                *)
(* orthogonalization of a step.                                            *)
(***************************************************************************)
\* before any call
ArnInit ==
  arn = [routine |-> "none", pc |-> "idle", k |-> 0, m |-> 0, M |-> 0, j |-> 0,
         breakdown |-> FALSE, steps |-> {}, brokeAt |-> -1, ierr |-> "OK"]

\* BVMatArnoldi up to its loop: the argument checks against the MaxNv+1
\* columns of V; flag0 is what the caller's breakdown variable holds
BVMatArnoldi(k, m, flag0) ==
  /\ arn.pc = "idle"
  /\ LET base == [arn EXCEPT !.routine = "BVMatArnoldi", !.k = k, !.m = m, !.M = m,
                             !.j = k, !.breakdown = flag0]
     IN  IF k < 0 \/ k > MaxNv + 1 \/ m < 1 \/ m > MaxNv + 1 \/ m <= k
         THEN arn' = [base EXCEPT !.pc = "done", !.ierr = "PETSC_ERR_ARG_OUTOFRANGE"]
         ELSE arn' = [base EXCEPT !.pc = "loop"]

\* one pass of  for (j=k;j<*m;j++)  of BVMatArnoldi, with the assignment of
\* the breakdown flag when the loop is left
BVMatArnoldi_Step(lindep) ==
  /\ arn.pc = "loop" /\ arn.routine = "BVMatArnoldi"
  /\ LET done == [arn EXCEPT !.steps = @ \cup {arn.j}]
     IN  IF lindep
         THEN arn' = [done EXCEPT !.M = arn.j + 1, !.brokeAt = arn.j,
                                  !.breakdown = TRUE, !.pc = "done"]
         ELSE IF arn.j + 1 < arn.M
         THEN arn' = [done EXCEPT !.j = @ + 1]
         ELSE arn' = [done EXCEPT !.breakdown = FALSE, !.pc = "done"]

\* EPSBasicArnoldi up to its loop (it checks no argument)
EPSBasicArnoldi(k, m, flag0) ==
  /\ arn.pc = "idle" /\ k >= 0 /\ m > k
  /\ arn' = [arn EXCEPT !.routine = "EPSBasicArnoldi", !.k = k, !.m = m, !.M = m,
                        !.j = k, !.breakdown = flag0, !.pc = "loop"]

\* one pass of  for (j=k;j<m-1;j++)  of EPSBasicArnoldi, or, for j = m-1, the
\* last step after the loop, whose orthogonalization gets no breakdown pointer
EPSBasicArnoldi_Step(lindep) ==
  /\ arn.pc = "loop" /\ arn.routine = "EPSBasicArnoldi"
  /\ LET done == [arn EXCEPT !.steps = @ \cup {arn.j}]
     IN  IF arn.j < arn.m - 1
         THEN IF lindep
              THEN arn' = [done EXCEPT !.M = arn.j + 1, !.brokeAt = arn.j,
                                       !.breakdown = TRUE, !.pc = "done"]
              ELSE arn' = [done EXCEPT !.j = @ + 1, !.breakdown = FALSE]
         ELSE arn' = [done EXCEPT !.pc = "done",
                                  !.brokeAt = IF lindep THEN arn.j ELSE -1]

\* the caller takes the results and is ready for another run
ArnoldiReturn ==
  /\ arn.pc = "done"
  /\ arn' = [arn EXCEPT !.pc = "idle", !.steps = {}, !.brokeAt = -1, !.ierr = "OK"]

ArnOnly == UNCHANGED <<bvvars, stvars, cissvars, fn, svd, nep, kc, slv, cyc, cs, act, isp>>

ArnNext ==
  \/ \E k \in -1..MaxNv, m \in 0..(MaxNv + 2), flag0 \in BOOLEAN :
       BVMatArnoldi(k, m, flag0) /\ ArnOnly
  \/ \E lindep \in BOOLEAN : BVMatArnoldi_Step(lindep) /\ ArnOnly
  \/ \E k \in 0..MaxNv, m \in 1..MaxNv, flag0 \in BOOLEAN :
       EPSBasicArnoldi(k, m, flag0) /\ ArnOnly
  \/ \E lindep \in BOOLEAN : EPSBasicArnoldi_Step(lindep) /\ ArnOnly
  \/ ArnoldiReturn /\ ArnOnly

(***************************************************************************)
(* Nonlinear Arnoldi solver (NEPSolve_NArnoldi).  The callbacks, the       *)
(* linear solve and the orthogonalization are known by their outcome.      *)
(***************************************************************************)
NEPStops == {"NEP_CONVERGED_ITERATING", "NEP_CONVERGED_TOL", "NEP_DIVERGED_ITS"}

\* after NEPSetUp_NArnoldi: a basis of ncv columns, max_it >= ncv (max_it =
\* ncv when left unset), nothing converged
NEPInitIn(ncvs, extras) ==
  \E ncv \in ncvs, e \in extras :
    nep = [pc |-> "start", ncv |-> ncv, max_it |-> ncv + e, n |-> 0, nconv |-> 0, its |-> 0,
           reason |-> "NEP_CONVERGED_ITERATING", breakdowns |-> 0, orth |-> "none",
           ierr |-> "OK"]

NEPInit == NEPInitIn(2..MaxNv, 0..MaxExtraIts)

\* NEPSolve_NArnoldi before the restart loop: the initial space (NEPSetUp
\* rejects more than ncv initial vectors)
NEPSolve_NArnoldi_Begin(nini) ==
  /\ nep.pc = "start" /\ nini <= nep.ncv
  /\ nep' = [nep EXCEPT !.pc = "loop", !.n = IF nini = 0 THEN 1 ELSE nini]

\* one pass of the restart loop.  conv: the convergence callback accepted the
\* Ritz pair; stop: reason set by the stopping callback; kspok: the linear
\* solve converged; orth: "ok", "lindep" (breakdown flag) or "zero" (beta = 0).
\* The stopping callback enforces the iteration cap max_it.
NEPSolve_NArnoldi_Pass(conv, stop, kspok, orth) ==
  /\ nep.pc = "loop" /\ nep.reason = "NEP_CONVERGED_ITERATING"
  /\ nep.its + 1 >= nep.max_it => stop # "NEP_CONVERGED_ITERATING"
  /\ LET tested == [nep EXCEPT !.its = @ + 1,
                               !.nconv = IF conv THEN @ + 1 ELSE @,
                               !.reason = stop]
     IN  IF stop # "NEP_CONVERGED_ITERATING"
         THEN nep' = [tested EXCEPT !.pc = "done"]
         ELSE IF nep.n >= nep.ncv
         THEN nep' = [tested EXCEPT !.pc = "done", !.ierr = "PETSC_ERR_ARG_OUTOFRANGE"]
         ELSE IF ~kspok
         THEN nep' = [tested EXCEPT !.pc = "done", !.reason = "NEP_DIVERGED_LINEAR_SOLVE"]
         ELSE IF orth # "ok"
         THEN nep' = [tested EXCEPT !.pc = "done", !.breakdowns = @ + 1, !.orth = orth,
                                    !.reason = "NEP_DIVERGED_BREAKDOWN"]
         ELSE nep' = [tested EXCEPT !.n = @ + 1, !.orth = orth]

NEPOnly == UNCHANGED <<bvvars, stvars, cissvars, fn, svd, arn, kc, slv, cyc, cs, act, isp>>

NEPNext ==
  \/ \E nini \in 0..MaxNv : NEPSolve_NArnoldi_Begin(nini) /\ NEPOnly
  \/ \E conv \in BOOLEAN, stop \in NEPStops, kspok \in BOOLEAN,
        orth \in {"ok", "lindep", "zero"} :
       NEPSolve_NArnoldi_Pass(conv, stop, kspok, orth) /\ NEPOnly

(***************************************************************************)
(* Convergence loop of the Krylov solvers in real arithmetic               *)
(* (EPSKrylovConvergence, PEPKrylovConvergence) and ArnoldiResiduals.      *)
(* The projected problem is known by the shape of its Ritz values:         *)
(* struct[i] is "r" for a real one, "c1" and "c2" for the two members of   *)
(* a complex conjugate pair.  Indices start at 0 as in the code.           *)
(***************************************************************************)
ValidStruct(s, n) ==
  \A i \in 0..(n - 1) :
    /\ s[i] = "c1" => (i + 1 < n /\ s[i + 1] = "c2")
    /\ s[i] = "c2" => (i > 0 /\ s[i - 1] = "c1")

Structs(n) == {s \in [0..(n - 1) -> {"r", "c1", "c2"}] : ValidStruct(s, n)}

KCInitIn(sizes, tracks) ==
  \E n \in sizes, t \in tracks :
    \E s \in Structs(n) :
      kc = [routine |-> "none", pc |-> "idle", struct |-> s, nv |-> n, trackall |-> t,
            getall |-> FALSE, issym |-> FALSE, kini |-> 0, nits |-> 0, k |-> 0,
            marker |-> -1, errest |-> [i \in 0..(n - 1) |-> -1],
            visits |-> {}, tested |-> <<>>, kout |-> -1]

KCInit == KCInitIn(1..MaxNv, BOOLEAN)

\* a call starts the loop at kini; the caller passes a range inside the nv
\* Ritz values that does not start in the middle of a pair
KCStart(routine, issym, getall, kini, nits) ==
  /\ kc.pc = "idle" /\ kc.routine = "none"
  /\ kini < kc.nv /\ nits >= 1 /\ kini + nits <= kc.nv /\ kc.struct[kini] # "c2"
  /\ kc' = [kc EXCEPT !.routine = routine, !.pc = "loop", !.issym = issym,
                      !.getall = getall, !.kini = kini, !.nits = nits, !.k = kini]

\* the symmetric case has real Ritz values only
EPSKrylovConvergence(issym, kini, nits) ==
  /\ issym => \A i \in 0..(kc.nv - 1) : kc.struct[i] = "r"
  /\ KCStart("EPSKrylovConvergence", issym, FALSE, kini, nits)

PEPKrylovConvergence(getall, kini, nits) ==
  KCStart("PEPKrylovConvergence", FALSE, getall \/ kc.trackall, kini, nits)

ArnoldiResiduals(nconv) ==
  KCStart("ArnoldiResiduals", FALSE, TRUE, nconv, kc.nv - nconv)

\* the test that never sees a pair
iscomplex_Never(k) == FALSE

\* iscomplex of EPSKrylovConvergence: !issym && k<nv-1 && S[k+1+k*lds] != 0.0
iscomplex(k) ==
  ~kc.issym /\ k < kc.nv - 1 /\ kc.struct[k] = "c1"

\* DSVectors returns newk = k+1 for the first member of a pair
newk(k) == IF k < kc.nv - 1 /\ kc.struct[k] = "c1" THEN k + 1 ELSE k

\* eigi[i] != 0 for both members of a pair
eigi(i) == IF kc.struct[i] = "r" THEN 0 ELSE 1

\* the end of a pass that never reports an index beyond kini+nits
KCPass_Clamped(pair, e, conv, all, test) ==
  LET k == kc.k
      marker == IF kc.marker = -1 /\ ~conv THEN k ELSE kc.marker
      next == IF pair THEN k + 2 ELSE k + 1
      stop == (marker # -1 /\ ~all) \/ next >= kc.kini + kc.nits
  IN  kc' = [kc EXCEPT !.errest = [i \in DOMAIN @ |->
                                     IF i = k \/ (pair /\ i = k + 1) THEN e ELSE @[i]],
                       !.visits = @ \cup {k},
                       !.tested = IF test THEN Append(@, k) ELSE @,
                       !.marker = marker,
                       !.k = next,
                       !.pc = IF stop THEN "done" ELSE "loop",
                       !.kout = IF stop THEN (IF marker # -1 THEN marker
                                              ELSE kc.kini + kc.nits) ELSE @]

\* the end of a pass at index k: estimate e stored, pair copied and skipped,
\* marker updated, loop left on a failed test unless all are tracked
KCPass(pair, e, conv, all, test) ==
  LET k == kc.k
      marker == IF kc.marker = -1 /\ ~conv THEN k ELSE kc.marker
      next == IF pair THEN k + 2 ELSE k + 1
      stop == (marker # -1 /\ ~all) \/ next >= kc.kini + kc.nits
  IN  kc' = [kc EXCEPT !.errest = [i \in DOMAIN @ |->
                                     IF i = k \/ (pair /\ i = k + 1) THEN e ELSE @[i]],
                       !.visits = @ \cup {k},
                       !.tested = IF test THEN Append(@, k) ELSE @,
                       !.marker = marker,
                       !.k = next,
                       !.pc = IF stop THEN "done" ELSE "loop",
                       !.kout = IF stop THEN (IF marker # -1 THEN marker ELSE next) ELSE @]

\* one pass of the loop of EPSKrylovConvergence; e is errest[k] after the
\* convergence callback, conv its verdict
EPSKrylovConvergence_Pass(e, conv) ==
  /\ kc.pc = "loop" /\ kc.routine = "EPSKrylovConvergence"
  /\ kc.k < kc.kini + kc.nits
  /\ KCPass(iscomplex(kc.k), e, conv, kc.trackall, TRUE)

\* one pass of the loop of PEPKrylovConvergence; the pair fails the test when
\* errest[k] >= tol, with tol = MaxRes
PEPKrylovConvergence_Pass(e) ==
  /\ kc.pc = "loop" /\ kc.routine = "PEPKrylovConvergence"
  /\ kc.k < kc.kini + kc.nits
  /\ KCPass(newk(kc.k) = kc.k + 1, e, e < MaxRes, kc.getall, TRUE)

\* one pass of the last loop of ArnoldiResiduals (no convergence test)
ArnoldiResiduals_Pass(e) ==
  /\ kc.pc = "loop" /\ kc.routine = "ArnoldiResiduals"
  /\ kc.k < kc.nv
  /\ KCPass(eigi(kc.k) # 0 /\ kc.k < kc.nv - 1, e, TRUE, TRUE, FALSE)

KCOnly == UNCHANGED <<bvvars, stvars, cissvars, fn, svd, arn, nep, slv, cyc, cs, act, isp>>

KCNext ==
  \/ \E issym \in BOOLEAN, kini \in 0..(MaxNv - 1), nits \in 1..MaxNv :
       EPSKrylovConvergence(issym, kini, nits) /\ KCOnly
  \/ \E getall \in BOOLEAN, kini \in 0..(MaxNv - 1), nits \in 1..MaxNv :
       PEPKrylovConvergence(getall, kini, nits) /\ KCOnly
  \/ \E nconv \in 0..(MaxNv - 1) : ArnoldiResiduals(nconv) /\ KCOnly
  \/ \E e \in 1..MaxRes, conv \in BOOLEAN : EPSKrylovConvergence_Pass(e, conv) /\ KCOnly
  \/ \E e \in 1..MaxRes : PEPKrylovConvergence_Pass(e) /\ KCOnly
  \/ \E e \in 1..MaxRes : ArnoldiResiduals_Pass(e) /\ KCOnly

(***************************************************************************)
(* Life cycle of a NEP / PEP solver object: NEPSolve, PEPSolve and the     *)
(* result accessors guarded by NEPCheckSolved / PEPCheckSolved.            *)
(***************************************************************************)
Accessors == {"GetConverged", "GetConvergedReason", "GetEigenpair", "GetErrorEstimate"}

\* where a solve call fails ("none": it returns 0)
SolveFails == {"none", "setup", "solver", "noreason", "refine", "sort"}

\* after NEPCreate / PEPCreate
SlvInitIn(classes) ==
  \E c \in classes :
    slv = [cls |-> c, state |-> "INITIAL", reason |-> "ITERATING", nconv |-> 0,
           solves |-> 0, lastsolve |-> "none",
           last |-> [op |-> "none", i |-> 0, ierr |-> "OK"]]

SlvInit == SlvInitIn({"NEP", "PEP"})

\* NEPSolve: the state becomes SOLVED as soon as the solver returns, before
\* the test of the reason; an enabled refinement moves it to EIGENVECTORS
NEPSolve(fail, reason, nconv, refine) ==
  /\ slv.cls = "NEP" /\ slv.solves < MaxSolves
  /\ (fail = "noreason" <=> reason = "ITERATING")
  /\ LET called == [slv EXCEPT !.solves = @ + 1,
                               !.lastsolve = IF fail = "none" THEN "ok" ELSE "error",
                               !.last = [op |-> "Solve", i |-> 0,
                                         ierr |-> CASE fail = "none" -> "OK"
                                                    [] fail = "noreason" -> "PETSC_ERR_PLIB"
                                                    [] OTHER -> "PETSC_ERR_LIB"]]
         refined == refine /\ nconv > 0
     IN  CASE fail = "setup" -> slv' = called
           [] fail = "solver" -> slv' = [called EXCEPT !.nconv = 0]
           [] fail = "noreason" ->
                slv' = [called EXCEPT !.nconv = nconv, !.reason = reason, !.state = "SOLVED"]
           [] fail = "refine" ->
                /\ refined
                /\ slv' = [called EXCEPT !.nconv = nconv, !.reason = reason, !.state = "SOLVED"]
           [] OTHER ->
                slv' = [called EXCEPT !.nconv = nconv, !.reason = reason,
                                      !.state = IF refined THEN "EIGENVECTORS" ELSE "SOLVED"]

\* PEPSolve: the state becomes SOLVED after the test of the reason and the
\* back-transformation, before the refinement and the sort
PEPSolve(fail, reason, nconv, refine) ==
  /\ slv.cls = "PEP" /\ slv.solves < MaxSolves
  /\ (fail = "noreason" <=> reason = "ITERATING")
  /\ LET called == [slv EXCEPT !.solves = @ + 1,
                               !.lastsolve = IF fail = "none" THEN "ok" ELSE "error",
                               !.last = [op |-> "Solve", i |-> 0,
                                         ierr |-> CASE fail = "none" -> "OK"
                                                    [] fail = "noreason" -> "PETSC_ERR_PLIB"
                                                    [] OTHER -> "PETSC_ERR_LIB"]]
     IN  CASE fail = "setup" -> slv' = called
           [] fail = "solver" -> slv' = [called EXCEPT !.nconv = 0]
           [] fail = "noreason" -> slv' = [called EXCEPT !.nconv = nconv, !.reason = reason]
           [] fail = "refine" ->
                /\ refine
                /\ slv' = [called EXCEPT !.nconv = nconv, !.reason = reason, !.state = "SOLVED"]
           [] OTHER ->
                slv' = [called EXCEPT !.nconv = nconv, !.reason = reason,
                                      !.state = IF refine THEN "EIGENVECTORS" ELSE "SOLVED"]

\* NEPCheckSolved / PEPCheckSolved: the state is SOLVED or beyond
CheckSolved == slv.state \in {"SOLVED", "EIGENVECTORS"}

\* NEPGetConverged, NEPGetConvergedReason, NEPGetEigenpair,
\* NEPGetErrorEstimate and their PEP counterparts
GetResult(op, i) ==
  /\ slv.last.op # op \/ slv.last.i # i
  /\ IF ~CheckSolved
     THEN slv' = [slv EXCEPT !.last = [op |-> op, i |-> i, ierr |-> "PETSC_ERR_ARG_WRONGSTATE"]]
     ELSE IF op \in {"GetEigenpair", "GetErrorEstimate"} /\ (i < 0 \/ i >= slv.nconv)
     THEN slv' = [slv EXCEPT !.last = [op |-> op, i |-> i, ierr |-> "PETSC_ERR_ARG_OUTOFRANGE"]]
     ELSE slv' = [slv EXCEPT !.last = [op |-> op, i |-> i, ierr |-> "OK"],
                             !.state = IF op = "GetEigenpair" THEN "EIGENVECTORS" ELSE @]

SlvOnly == UNCHANGED <<bvvars, stvars, cissvars, fn, svd, arn, nep, kc, cyc, cs, act, isp>>

SlvNext ==
  \/ \E fail \in SolveFails, reason \in {"ITERATING", "CONVERGED", "DIVERGED"},
        nconv \in 0..MaxConv, refine \in BOOLEAN :
       NEPSolve(fail, reason, nconv, refine) /\ SlvOnly
  \/ \E fail \in SolveFails, reason \in {"ITERATING", "CONVERGED", "DIVERGED"},
        nconv \in 0..MaxConv, refine \in BOOLEAN :
       PEPSolve(fail, reason, nconv, refine) /\ SlvOnly
  \/ \E op \in Accessors, i \in 0..MaxConv : GetResult(op, i) /\ SlvOnly

(***************************************************************************)
(* SVD cyclic: ownership and settings of the embedded eigensolver          *)
(* (SVDCyclicSetEPS, SVDCyclicGetEPS, SVDSetUp_Cyclic, SVDSolve_Cyclic).   *)
(***************************************************************************)
\* settings an eigensolver carries: which/target, dimensions, tolerance, test
UserEPS ==
  [which : {"EPS_TARGET_MAGNITUDE", "EPS_SMALLEST_REAL"}, nev : 1..MaxNsv,
   tol : {"1e-8"}, conv : {"EPS_CONV_ABS", "EPS_CONV_NORM"}]

\* settings of an eigensolver made by SVDCyclicGetEPS (EPSCreate, then
\* EPSSetWhichEigenpairs(EPS_LARGEST_REAL))
CreatedEPS ==
  [which |-> "EPS_LARGEST_REAL", nev |-> 1, tol |-> "PETSC_DEFAULT", conv |-> "EPS_CONV_REL"]

\* after SVDCreate_Cyclic and the SVD option setters; issinv: the type of
\* the ST that the options database gives an internally created eigensolver
CycInitIn(gens, whichs, nsvs, tols, convs, sinvs) ==
  \E g \in gens, w \in whichs, n \in nsvs, t \in tols, c \in convs, s \in sinvs :
    cyc = [isgeneralized |-> g, which |-> w, nsv |-> n, tol |-> t, conv |-> c,
           issinv |-> s, eps |-> "none", usereps |-> FALSE, es |-> CreatedEPS,
           given |-> "none", userset |-> CreatedEPS,
           state |-> "initial", solvedwith |-> "none", ierr |-> "OK"]

CycInit ==
  CycInitIn(BOOLEAN, {"SVD_LARGEST", "SVD_SMALLEST"}, 1..MaxNsv,
            {"PETSC_DEFAULT", "1e-4"}, SVDConvs, BOOLEAN)

\* SVDCyclicSetEPS_Cyclic
SVDCyclicSetEPS(e, set) ==
  /\ e # cyc.eps
  /\ cyc' = [cyc EXCEPT !.eps = e, !.usereps = TRUE, !.es = set,
                        !.given = e, !.userset = set,
                        !.state = "initial", !.ierr = "OK"]

\* SVDCyclicGetEPS_Cyclic
SVDCyclicGetEPS ==
  /\ cyc.eps = "none"
  /\ cyc' = [cyc EXCEPT !.eps = "internal", !.es = CreatedEPS, !.ierr = "OK"]

\* the settings SVDSetUp_Cyclic derives from the SVD options
DerivedEPS ==
  [which |-> IF cyc.which = "SVD_LARGEST"
             THEN (IF cyc.issinv THEN "EPS_TARGET_MAGNITUDE" ELSE "EPS_LARGEST_REAL")
             ELSE IF cyc.isgeneralized THEN "EPS_LARGEST_REAL"
             ELSE "SlepcCompareSmallestPosReal",
   nev |-> cyc.nsv,
   tol |-> IF cyc.tol = "PETSC_DEFAULT" THEN "SLEPC_DEFAULT_TOL/10" ELSE cyc.tol,
   conv |-> CASE cyc.conv = "SVD_CONV_ABS" -> "EPS_CONV_ABS"
              [] cyc.conv = "SVD_CONV_REL" -> "EPS_CONV_REL"
              [] cyc.conv = "SVD_CONV_NORM" ->
                   IF cyc.isgeneralized THEN "EPSConv_Cyclic" ELSE "EPS_CONV_NORM"
              [] OTHER -> cyc.es.conv]

\* the setup that derives the settings for every eigensolver
SVDSetUp_Cyclic_EPS_Always ==
  /\ cyc.state = "initial"
  /\ LET e == IF cyc.eps = "none" THEN "internal" ELSE cyc.eps
     IN  IF cyc.conv \in {"SVD_CONV_MAXIT", "SVD_CONV_USER"}
         THEN cyc' = [cyc EXCEPT !.eps = e, !.es = DerivedEPS, !.ierr = "PETSC_ERR_SUP"]
         ELSE cyc' = [cyc EXCEPT !.eps = e, !.es = DerivedEPS, !.state = "setup",
                                 !.ierr = "OK"]

\* SVDSetUp_Cyclic: the eigensolver object and the settings made on it
SVDSetUp_Cyclic_EPS ==
  /\ cyc.state = "initial"
  /\ LET e == IF cyc.eps = "none" THEN "internal" ELSE cyc.eps
     IN  IF cyc.usereps
         THEN cyc' = [cyc EXCEPT !.eps = e, !.state = "setup", !.ierr = "OK"]
         ELSE IF cyc.conv \in {"SVD_CONV_MAXIT", "SVD_CONV_USER"}
         THEN cyc' = [cyc EXCEPT !.eps = e, !.es = DerivedEPS, !.ierr = "PETSC_ERR_SUP"]
         ELSE cyc' = [cyc EXCEPT !.eps = e, !.es = DerivedEPS, !.state = "setup",
                                 !.ierr = "OK"]

\* SVDSolve_Cyclic: EPSSolve(cyclic->eps)
SVDSolve_Cyclic_EPS ==
  /\ cyc.state = "setup"
  /\ cyc' = [cyc EXCEPT !.state = "solved", !.solvedwith = cyc.eps]

CycOnly == UNCHANGED <<bvvars, stvars, cissvars, fn, svd, arn, nep, kc, slv, cs, act, isp>>

CycNext ==
  \/ \E e \in {"u1", "u2"}, set \in UserEPS : SVDCyclicSetEPS(e, set) /\ CycOnly
  \/ SVDCyclicGetEPS /\ CycOnly
  \/ SVDSetUp_Cyclic_EPS /\ CycOnly
  \/ SVDSolve_Cyclic_EPS /\ CycOnly

(***************************************************************************)
(* CISS options: EPSCreate_CISS and the setters EPSCISSSetRegion,          *)
(* EPSCISSSetSizes, EPSCISSSetThreshold, EPSCISSSetRefinement.  Real       *)
(* arguments are taken on an integer grid; delta is in units of 1e-12 and  *)
(* the spurious threshold in units of 1e-4.                                *)
(***************************************************************************)
PETSC_DECIDE == -1
PETSC_DEFAULT == -2

\* EPSCreate_CISS: default values of parameters
CISSDefaults ==
  [center |-> 0, radius |-> 1, vscale |-> 0, N |-> 32, L |-> 16, M |-> 8,
   delta |-> 0, npart |-> 1, L_max |-> 128, spurious_threshold |-> 1,
   isreal |-> FALSE, refine_outer |-> 1, refine_inner |-> 1, refine_blocksize |-> 1]

CSInit == cs = [set |-> CISSDefaults, op |-> "EPSCreate_CISS", ierr |-> "OK"]

CSOk(c) == [set |-> c, ierr |-> "OK"]
CSErr(c) == [set |-> c, ierr |-> "PETSC_ERR_ARG_OUTOFRANGE"]

\* EPSCISSSetRegion_CISS
EPSCISSSetRegion_CISS(c, center, radius, vscale) ==
  LET c1 == [c EXCEPT !.center = center]
      r2 == IF radius = 0 THEN CSOk(c1)
            ELSE IF radius = PETSC_DEFAULT THEN CSOk([c1 EXCEPT !.radius = 1])
            ELSE IF radius < 0 THEN CSErr(c1)
            ELSE CSOk([c1 EXCEPT !.radius = radius])
  IN  IF r2.ierr # "OK" THEN r2
      ELSE IF vscale = 0 THEN r2
      ELSE IF vscale < 0 THEN CSErr(r2.set)
      ELSE CSOk([r2.set EXCEPT !.vscale = vscale])

\* EPSCISSSetSizes_CISS, up to the argument bsmax
Sizes_bsmax(c, bsmax) ==
  IF bsmax = 0 THEN CSOk(c)
  ELSE IF bsmax = PETSC_DECIDE \/ bsmax = PETSC_DEFAULT THEN CSOk([c EXCEPT !.L = 256])
  ELSE IF bsmax < 1 THEN CSErr(c)
  ELSE CSOk([c EXCEPT !.L_max = IF bsmax < c.L THEN c.L ELSE bsmax])

Sizes_npart(c, npart) ==
  IF npart = 0 THEN CSOk(c)
  ELSE IF npart = PETSC_DECIDE \/ npart = PETSC_DEFAULT THEN CSOk([c EXCEPT !.npart = 1])
  ELSE IF npart < 1 THEN CSErr(c)
  ELSE CSOk([c EXCEPT !.npart = npart])

Sizes_ms(c, ms) ==
  IF ms = 0 THEN CSOk(c)
  ELSE IF ms = PETSC_DECIDE \/ ms = PETSC_DEFAULT THEN CSOk([c EXCEPT !.M = c.N \div 4])
  ELSE IF ms < 1 \/ ms > c.N THEN CSErr(c)
  ELSE CSOk([c EXCEPT !.M = ms])

Sizes_bs(c, bs) ==
  IF bs = 0 THEN CSOk(c)
  ELSE IF bs = PETSC_DECIDE \/ bs = PETSC_DEFAULT THEN CSOk([c EXCEPT !.L = 16])
  ELSE IF bs < 1 \/ bs > c.L_max THEN CSErr(c)
  ELSE CSOk([c EXCEPT !.L = bs])

Sizes_ip(c, ip) ==
  IF ip = 0 THEN CSOk(c)
  ELSE IF ip = PETSC_DECIDE \/ ip = PETSC_DEFAULT
  THEN CSOk(IF c.N # 32 THEN [c EXCEPT !.N = 32, !.M = 8] ELSE c)
  ELSE IF ip < 1 \/ ip % 2 = 1 THEN CSErr(c)
  ELSE CSOk(IF c.N # ip THEN [c EXCEPT !.N = ip, !.M = ip \div 4] ELSE c)

\* EPSCISSSetSizes_CISS: the arguments are handled in the order ip, bs, ms,
\* npart, bsmax; the first rejected one ends the call
EPSCISSSetSizes_CISS(c, ip, bs, ms, npart, bsmax, isreal) ==
  LET r1 == Sizes_ip(c, ip)
      r2 == IF r1.ierr # "OK" THEN r1 ELSE Sizes_bs(r1.set, bs)
      r3 == IF r2.ierr # "OK" THEN r2 ELSE Sizes_ms(r2.set, ms)
      r4 == IF r3.ierr # "OK" THEN r3 ELSE Sizes_npart(r3.set, npart)
      r5 == IF r4.ierr # "OK" THEN r4 ELSE Sizes_bsmax(r4.set, bsmax)
  IN  IF r5.ierr # "OK" THEN r5 ELSE CSOk([r5.set EXCEPT !.isreal = isreal])

\* EPSCISSSetThreshold_CISS
EPSCISSSetThreshold_CISS(c, delta, spur) ==
  LET r1 == IF delta = 0 THEN CSOk(c)
            ELSE IF delta = PETSC_DEFAULT THEN CSOk([c EXCEPT !.delta = 1])
            ELSE IF delta <= 0 THEN CSErr(c)
            ELSE CSOk([c EXCEPT !.delta = delta])
  IN  IF r1.ierr # "OK" THEN r1
      ELSE IF spur = 0 THEN r1
      ELSE IF spur = PETSC_DEFAULT THEN CSOk([r1.set EXCEPT !.spurious_threshold = 1])
      ELSE IF spur <= 0 THEN CSErr(r1.set)
      ELSE CSOk([r1.set EXCEPT !.spurious_threshold = spur])

\* EPSCISSSetRefinement_CISS
EPSCISSSetRefinement_CISS(c, inner, outer, blsize) ==
  LET r1 == IF inner = PETSC_DEFAULT THEN CSOk([c EXCEPT !.refine_inner = 0])
            ELSE IF inner < 0 THEN CSErr(c)
            ELSE CSOk([c EXCEPT !.refine_inner = inner])
      r2 == IF r1.ierr # "OK" THEN r1
            ELSE IF outer = PETSC_DEFAULT THEN CSOk([r1.set EXCEPT !.refine_outer = 0])
            ELSE IF outer < 0 THEN CSErr(r1.set)
            ELSE CSOk([r1.set EXCEPT !.refine_outer = outer])
  IN  IF r2.ierr # "OK" THEN r2
      ELSE IF blsize = PETSC_DEFAULT THEN CSOk([r2.set EXCEPT !.refine_blocksize = 0])
      ELSE IF blsize < 0 THEN CSErr(r2.set)
      ELSE CSOk([r2.set EXCEPT !.refine_blocksize = blsize])

\* the four calls as steps on the context
CSCall(op, r) == cs' = [set |-> r.set, op |-> op, ierr |-> r.ierr]

EPSCISSSetRegion(center, radius, vscale) ==
  CSCall("EPSCISSSetRegion", EPSCISSSetRegion_CISS(cs.set, center, radius, vscale))

EPSCISSSetSizes(ip, bs, ms, npart, bsmax, isreal) ==
  CSCall("EPSCISSSetSizes", EPSCISSSetSizes_CISS(cs.set, ip, bs, ms, npart, bsmax, isreal))

EPSCISSSetThreshold(delta, spur) ==
  CSCall("EPSCISSSetThreshold", EPSCISSSetThreshold_CISS(cs.set, delta, spur))

EPSCISSSetRefinement(inner, outer, blsize) ==
  CSCall("EPSCISSSetRefinement", EPSCISSSetRefinement_CISS(cs.set, inner, outer, blsize))

CSOnly == UNCHANGED <<bvvars, stvars, cissvars, fn, svd, arn, nep, kc, slv, cyc, act, isp>>

\* argument values: keep (0), the default markers, a rejected value and
\* accepted ones
SizeArgs == {PETSC_DEFAULT, -3, 0, 1, 2, 200}

\* EPSCISSSetSizes alone, from the defaults
CSSizesNext ==
  \/ \E ip \in SizeArgs, bs \in SizeArgs, ms \in SizeArgs, npart \in {0},
        bsmax \in SizeArgs \cup {PETSC_DECIDE}, isreal \in {FALSE} :
       EPSCISSSetSizes(ip, bs, ms, npart, bsmax, isreal) /\ CSOnly

\* the four setters
CSNext ==
  \/ \E center \in {0, 1}, radius \in {PETSC_DEFAULT, -1, 0, 2}, vscale \in {-1, 0, 1} :
       EPSCISSSetRegion(center, radius, vscale) /\ CSOnly
  \/ \E ip \in {0, 1, 2}, bs \in {0, -3, 2}, ms \in {0, 1}, npart \in {0, -3, 2},
        bsmax \in {0}, isreal \in BOOLEAN :
       EPSCISSSetSizes(ip, bs, ms, npart, bsmax, isreal) /\ CSOnly
  \/ \E delta \in {PETSC_DEFAULT, -1, 0, 2}, spur \in {-1, 0, 2} :
       EPSCISSSetThreshold(delta, spur) /\ CSOnly
  \/ \E inner \in {PETSC_DEFAULT, -1, 2}, outer \in {-1, 1}, blsize \in {-1, 1} :
       EPSCISSSetRefinement(inner, outer, blsize) /\ CSOnly

(***************************************************************************)
(* BV: the active window of columns (BVSetActiveColumns) and one of its    *)
(* users (BVMultInPlace).  After BVSetSizes l = 0 and k = m.               *)
(***************************************************************************)
ActInitIn(sizes) ==
  \E m \in sizes :
    act = [m |-> m, l |-> 0, k |-> m, op |-> "BVSetSizes", a |-> 0, b |-> 0, ierr |-> "OK"]

ActInit == ActInitIn(1..MaxCols)

\* BVSetActiveColumns: l is validated and stored, then k
BVSetActiveColumns(l, k) ==
  LET called == [act EXCEPT !.op = "BVSetActiveColumns", !.a = l, !.b = k]
      afterl == IF l = PETSC_DECIDE \/ l = PETSC_DEFAULT THEN [called EXCEPT !.l = 0]
                ELSE IF l < 0 \/ l > act.m
                THEN [called EXCEPT !.ierr = "PETSC_ERR_ARG_OUTOFRANGE"]
                ELSE [called EXCEPT !.l = l]
  IN  IF l # PETSC_DECIDE /\ l # PETSC_DEFAULT /\ (l < 0 \/ l > act.m)
      THEN act' = afterl
      ELSE IF k = PETSC_DECIDE \/ k = PETSC_DEFAULT
      THEN act' = [afterl EXCEPT !.k = act.m, !.ierr = "OK"]
      ELSE IF k < 0 \/ k > act.m
      THEN act' = [afterl EXCEPT !.ierr = "PETSC_ERR_ARG_OUTOFRANGE"]
      ELSE act' = [afterl EXCEPT !.k = k, !.ierr = "OK"]

\* BVMultInPlace with a matrix of k rows and at least e columns: the checks
\* of s and e against the active window
BVMultInPlace(s, e) ==
  act' = [act EXCEPT !.op = "BVMultInPlace", !.a = s, !.b = e,
                     !.ierr = IF s < act.l \/ s >= act.k \/ e < act.l \/ e > act.k
                              THEN "PETSC_ERR_ARG_OUTOFRANGE" ELSE "OK"]

ActOnly == UNCHANGED <<bvvars, stvars, cissvars, fn, svd, arn, nep, kc, slv, cyc, cs, isp>>

ActNext ==
  \/ \E l \in PETSC_DEFAULT..(MaxCols + 1), k \in PETSC_DEFAULT..(MaxCols + 1) :
       BVSetActiveColumns(l, k) /\ ActOnly
  \/ \E s \in 0..MaxCols, e \in 0..MaxCols : BVMultInPlace(s, e) /\ ActOnly

(***************************************************************************)
(* SVD cyclic: transfer of the initial subspaces to the eigensolver        *)
(* (SVDSetUp_Cyclic, the loop over the initial vectors).  nr and nl are    *)
(* the numbers of right and left initial vectors (-nini and -ninil); a     *)
(* vector is <<"IS", i>>, <<"ISL", i>> or the combined <<"v", i>>.  out    *)
(* holds the vectors with an array obtained and not yet restored.          *)
(***************************************************************************)
ISPInitIn(rights, lefts) ==
  \E nr \in rights, nl \in lefts :
    isp = [nr |-> nr, nl |-> nl, i |-> 0, pc |-> "start", out |-> {},
           misrestored |-> {}, lost |-> {}, destroyed |-> {}, given |-> <<>>,
           ierr |-> "OK"]

ISPInit == ISPInitIn(0..MaxInit, 0..MaxInit)

ISPMax(a, b) == IF a > b THEN a ELSE b

\* a vector released (destroyed or replaced) while its array is out
ISPRelease(s, vecs) ==
  [s EXCEPT !.destroyed = @ \cup vecs, !.lost = @ \cup (vecs \cap s.out)]

\* if (svd->nini<0 || svd->ninil<0)
Transfer_Begin ==
  /\ isp.pc = "start"
  /\ isp' = [isp EXCEPT !.pc = IF isp.nr > 0 \/ isp.nl > 0 THEN "left" ELSE "done"]

\* first half of a pass: the combined vector v is created and its array
\* obtained; the left vector is copied in.  sizeok: the size check of the
\* left vector passes.  The array of ISL[i] is restored on IS[i]; with
\* i >= -nini that slot is beyond the array of right vectors, and so is the
\* zeroing at &va when there is no left vector: ub tells whether such an
\* access ends the call ("error") or goes unnoticed ("ignored").
Transfer_Left(sizeok, ub) ==
  /\ isp.pc = "left"
  /\ LET i == isp.i
         made == [isp EXCEPT !.out = @ \cup {<<"v", i>>}]
     IN  IF i < isp.nl
         THEN LET got == [made EXCEPT !.out = @ \cup {<<"ISL", i>>}]
              IN  IF ~sizeok
                  THEN isp' = [got EXCEPT !.pc = "done", !.ierr = "PETSC_ERR_SUP"]
                  ELSE IF i < isp.nr
                  THEN isp' = [got EXCEPT !.pc = "right",
                                          !.out = @ \ {<<"IS", i>>},
                                          !.misrestored = @ \cup {<<"IS", i>>}]
                  ELSE IF ub = "error"
                  THEN isp' = [got EXCEPT !.pc = "done", !.ierr = "PETSC_ERR_ARG_CORRUPT"]
                  ELSE isp' = [got EXCEPT !.pc = "right"]
         ELSE IF ub = "error"
         THEN isp' = [made EXCEPT !.pc = "done", !.ierr = "PETSC_ERR_MEM"]
         ELSE isp' = [made EXCEPT !.pc = "right"]

\* second half of a pass: the right vector is copied in, the array of v is
\* restored, IS[i] is destroyed and replaced by v
Transfer_Right(sizeok, ub) ==
  /\ isp.pc = "right"
  /\ LET i == isp.i
         last == i + 1 >= ISPMax(isp.nr, isp.nl)
         put == [isp EXCEPT !.out = @ \ {<<"v", i>>}, !.i = i + 1,
                            !.pc = IF last THEN "finish" ELSE "left"]
     IN  IF i < isp.nr
         THEN IF ~sizeok
              THEN isp' = [isp EXCEPT !.pc = "done", !.ierr = "PETSC_ERR_SUP"]
              ELSE isp' = ISPRelease(put, {<<"IS", i>>})
         ELSE IF ub = "error"
         THEN isp' = [put EXCEPT !.pc = "done", !.i = i, !.ierr = "PETSC_ERR_ARG_CORRUPT"]
         ELSE isp' = put

\* after the loop: nini = min(nini,ninil), EPSSetInitialSpace, then both
\* lists are destroyed
Transfer_Finish ==
  /\ isp.pc = "finish"
  /\ LET n == ISPMax(isp.nr, isp.nl)
         vs == {<<"v", j>> : j \in 0..(n - 1)}
         ls == {<<"ISL", j>> : j \in 0..(isp.nl - 1)}
     IN  isp' = [ISPRelease(isp, vs \cup ls) EXCEPT
                   !.pc = "done", !.nr = 0, !.nl = 0,
                   !.given = [j \in 1..n |-> <<"v", j - 1>>]]

ISPOnly == UNCHANGED <<bvvars, stvars, cissvars, fn, svd, arn, nep, kc, slv, cyc, cs, act>>

ISPNext ==
  \/ Transfer_Begin /\ ISPOnly
  \/ \E sizeok \in BOOLEAN, ub \in {"error", "ignored"} : Transfer_Left(sizeok, ub) /\ ISPOnly
  \/ \E sizeok \in BOOLEAN, ub \in {"error", "ignored"} : Transfer_Right(sizeok, ub) /\ ISPOnly
  \/ Transfer_Finish /\ ISPOnly

(***************************************************************************)
(* Specifications                                                          *)
(***************************************************************************)
BVParked == BVInitIn({1})
STParked == STInitIn({"COPY"}, {0})
FNParked == FNInit
ISPParked == ISPInitIn({0}, {0})
ActParked == ActInitIn({1})
CSParked == CSInit
CycParked == CycInitIn({FALSE}, {"SVD_LARGEST"}, {1}, {"PETSC_DEFAULT"}, {"SVD_CONV_REL"}, {FALSE})
SlvParked == SlvInitIn({"NEP"})
KCParked == KCInitIn({1}, {FALSE})
NEPParked == NEPInitIn({2}, {0})
ArnParked == ArnInit
SVDParked == SVDInitIn({FALSE}, {"SVD_LARGEST"}, {"SVD_CONV_REL"}, {FALSE}, {{}})
CISSParked == CISSInitIn({1}, {1}, {0}, {[center |-> <<6, 0>>, radius |-> 1, vinv |-> 1]}, {1})

InitBV == BVInit /\ STParked /\ CISSParked /\ FNParked /\ SVDParked /\ ArnParked /\ NEPParked /\ KCParked /\ SlvParked /\ CycParked /\ CSParked /\ ActParked /\ ISPParked
InitST == STInit /\ BVParked /\ CISSParked /\ FNParked /\ SVDParked /\ ArnParked /\ NEPParked /\ KCParked /\ SlvParked /\ CycParked /\ CSParked /\ ActParked /\ ISPParked
InitInplace == STInplaceInit /\ BVParked /\ CISSParked /\ FNParked /\ SVDParked /\ ArnParked /\ NEPParked /\ KCParked /\ SlvParked /\ CycParked /\ CSParked /\ ActParked /\ ISPParked
InitCISS == CISSInit /\ BVParked /\ STParked /\ FNParked /\ SVDParked /\ ArnParked /\ NEPParked /\ KCParked /\ SlvParked /\ CycParked /\ CSParked /\ ActParked /\ ISPParked
InitCISSFair ==
  CISSInitIn(1..MaxBlock, 1..MaxMoment, 0..MaxRefine, Regions, {1}) /\ BVParked /\ STParked /\ FNParked /\ SVDParked /\ ArnParked /\ NEPParked /\ KCParked /\ SlvParked /\ CycParked /\ CSParked /\ ActParked /\ ISPParked

InitFN == FNInit /\ BVParked /\ STParked /\ CISSParked /\ SVDParked /\ ArnParked /\ NEPParked /\ KCParked /\ SlvParked /\ CycParked /\ CSParked /\ ActParked /\ ISPParked

InitSVD == SVDInit /\ BVParked /\ STParked /\ CISSParked /\ FNParked /\ ArnParked /\ NEPParked /\ KCParked /\ SlvParked /\ CycParked /\ CSParked /\ ActParked /\ ISPParked

InitArn == ArnInit /\ BVParked /\ STParked /\ CISSParked /\ FNParked /\ SVDParked /\ NEPParked /\ KCParked /\ SlvParked /\ CycParked /\ CSParked /\ ActParked /\ ISPParked

InitNEP == NEPInit /\ BVParked /\ STParked /\ CISSParked /\ FNParked /\ SVDParked /\ ArnParked /\ KCParked /\ SlvParked /\ CycParked /\ CSParked /\ ActParked /\ ISPParked

InitKC == KCInit /\ BVParked /\ STParked /\ CISSParked /\ FNParked /\ SVDParked /\ ArnParked /\ NEPParked /\ SlvParked /\ CycParked /\ CSParked /\ ActParked /\ ISPParked

InitSlv == SlvInit /\ BVParked /\ STParked /\ CISSParked /\ FNParked /\ SVDParked /\ ArnParked /\ NEPParked /\ KCParked /\ CycParked /\ CSParked /\ ActParked /\ ISPParked

InitCyc == CycInit /\ BVParked /\ STParked /\ CISSParked /\ FNParked /\ SVDParked /\ ArnParked /\ NEPParked /\ KCParked /\ SlvParked /\ CSParked /\ ActParked /\ ISPParked

InitCS == CSInit /\ BVParked /\ STParked /\ CISSParked /\ FNParked /\ SVDParked /\ ArnParked /\ NEPParked /\ KCParked /\ SlvParked /\ CycParked /\ ActParked /\ ISPParked

InitAct == ActInit /\ BVParked /\ STParked /\ CISSParked /\ FNParked /\ SVDParked /\ ArnParked /\ NEPParked /\ KCParked /\ SlvParked /\ CycParked /\ CSParked /\ ISPParked

InitISP == ISPInit /\ BVParked /\ STParked /\ CISSParked /\ FNParked /\ SVDParked /\ ArnParked /\ NEPParked /\ KCParked /\ SlvParked /\ CycParked /\ CSParked /\ ActParked

SpecBV == InitBV /\ [][BVNext]_vars

SpecST == InitST /\ [][STNext]_vars

SpecInplace == InitInplace /\ [][STInplaceNext]_vars

SpecCISS == InitCISS /\ [][CISSNext]_vars

SpecFN == InitFN /\ [][FNNext]_vars

SpecSVD == InitSVD /\ [][SVDNext]_vars

SpecArnoldi == InitArn /\ [][ArnNext]_vars

SpecNArnoldi == InitNEP /\ [][NEPNext]_vars

SpecKConv == InitKC /\ [][KCNext]_vars

SpecSolve == InitSlv /\ [][SlvNext]_vars

SpecCyclicEPS == InitCyc /\ [][CycNext]_vars

SpecCISSSet == InitCS /\ [][CSNext]_vars

SpecCISSSizes == InitCS /\ [][CSSizesNext]_vars

SpecBVActive == InitAct /\ [][ActNext]_vars

SpecTransfer == InitISP /\ [][ISPNext]_vars

\* EPSSolve_CISS is one sequential routine: it keeps taking its next step
SpecCISSFair == InitCISSFair /\ [][CISSNext]_vars /\ WF_vars(CISSNext)

(***************************************************************************)
(* Claims on the BV                                                        *)
(***************************************************************************)
C1_Distinct ==
  /\ Cardinality(Borrowed) <= 2
  /\ (bv.ci[0] # -1 => bv.ci[0] # bv.ci[1])

C1_Refused ==
  (bvret'.op = "BVGetColumn" /\ (bvret'.j \in Borrowed \/ Cardinality(Borrowed) = 2))
    => (bvret'.ierr # "OK" /\ bv' = bv /\ held' = held)

\* C1: the borrowed columns are pairwise distinct and at most two; a
\* BVGetColumn of a column already borrowed, or with two columns outstanding,
\* fails and borrows nothing.
C1_Theorem == [](C1_Distinct) /\ [][C1_Refused]_vars

\* two different columns are out and a third BVGetColumn has just been refused
C1_Witness ==
  /\ Cardinality(Borrowed) = 2
  /\ bvret.op = "BVGetColumn" /\ bvret.ierr = "PETSC_ERR_SUP"
  /\ bvret.j \notin Borrowed /\ bvret.j >= 0 /\ bvret.j < bv.m

C2_Step ==
  /\ bvret'.op = "BVRestoreColumn" =>
       /\ bvret'.ierr = "OK" <=> (bvret'.j \in Borrowed /\ bvret'.v = held[bvret'.j])
       /\ bvret'.ierr # "OK" => (Borrowed' = Borrowed /\ bv' = bv)
       /\ bvret'.ierr = "OK" => Borrowed' = Borrowed \ {bvret'.j}
  /\ (bvret'.op = "BVGetColumn" /\ bvret'.j \in 0..(bv.m - 1) \ Borrowed
        /\ Cardinality(Borrowed) < 2)
       => (bvret'.ierr = "OK" /\ Borrowed' = Borrowed \cup {bvret'.j})

\* C2: BVRestoreColumn(bv,j,v) succeeds exactly when column j is borrowed and
\* v is the Vec BVGetColumn handed out for j; otherwise it fails and the
\* borrowed set is unchanged; after a successful restore column j is free and a
\* BVGetColumn of it succeeds again.
C2_Theorem == [][C2_Step]_vars

\* a column was restored (the BV saw it modified) and has been fetched again
C2_Witness ==
  /\ bv.state > 0
  /\ bvret.op = "BVGetColumn" /\ bvret.ierr = "OK"
  /\ bvret.j \in Borrowed

(***************************************************************************)
(* Claims on the ST                                                        *)
(***************************************************************************)
\* the entry A[0] - sigma*B (or A[0] - sigma*I) for the shift sigma and the
\* values the matrices had at the stored snapshots
ShiftedAtSnapshot(s, ms, sigma) ==
  ms[s.A[0]][s.Astate[0] + 1]
    - sigma * (IF s.nmat > 1 THEN ms[s.A[1]][s.Astate[1] + 1] ELSE 1)

\* T, P and the solver are the ones for the shift sigma
BuiltFor(s, ms, sigma) ==
  /\ s.T1.kind # "null"
  /\ TVal(s, ms) = ShiftedAtSnapshot(s, ms, sigma)
  /\ s.ksp.kind = "own"
  /\ s.ksp.val = ShiftedAtSnapshot(s, ms, sigma)

\* a call STSetShift(shift) with shift different from the stored shift
ShiftChanged == stret'.op = "STSetShift" /\ stret'.arg # st.sigma

C4_Theorem ==
  [][(stret'.op = "STSetMatrices" /\ stret'.ierr = "OK") =>
        /\ st'.nmat = stret'.arg
        /\ (st'.nmat # st.nmat \/ \E i \in 0..(st'.nmat - 1) : st'.A[i] # st.A[i])
             => st'.state = "INITIAL"
        /\ \A i \in 0..(st'.nmat - 1) : st'.Astate[i] = MatState(st'.A[i])]_vars

\* a set-up ST was given another list of the same length and is initial again,
\* holding the snapshot of a matrix that has been changed before
C4_Witness ==
  /\ stret.op = "STSetMatrices"
  /\ stret.ierr = "OK"
  /\ st.state = "INITIAL"
  /\ st.sigma_set
  /\ st.T1 = NoMat
  /\ st.nmat = 2
  /\ st.Astate[0] > 0
  /\ st.Astate[0] # st.Astate[1]

OriginalA0 == mats[st.A[0]][1]

Returned == loc.pc \in {"done", "error", "crash"}

\* C7 as stated: the block size never exceeds L_max and every column of Y
\* solved lies in the block of its own quadrature point
C7_Original ==
  /\ ctx.L <= ctx.L_max
  /\ \A y \in Y : y[2] < ctx.L_max

\* C8 as stated: a run in which a shifted linear solve failed (KSPSolve
\* returned an error code, or returned with a diverged reason) ends with
\* reason DivergedLinearSolve
C8_Original ==
  (loc.pc \in {"done", "error"} /\ (loc.pc = "error" \/ eps.kspdiverged))
    => eps.reason = "EPS_DIVERGED_LINEAR_SOLVE"

RefinementBounds ==
  /\ loc.grown <= ctx.refine_blocksize
  /\ loc.resolved <= ctx.refine_inner
  /\ loc.refined <= ctx.refine_outer
  /\ loc.passes <= ctx.refine_outer + 1
  /\ loc.pc = "done" => (loc.passes >= 1 /\ loc.ranks >= loc.passes)

C11_Original ==
  \A y \in Y : y[3] = (IF eps.nmat = 2 THEN "BV" ELSE "V")

(***************************************************************************)
(* Claims on the FN                                                        *)
(***************************************************************************)
\* C12 as stated: every iterative method gives up only after 50 passes, never
\* runs more than 50, and a call whose loop ended without the residual
\* meeting the tolerance fails instead of returning a result
C12_Original ==
  /\ fn.it <= 50
  /\ (fn.pc = "idle" /\ fn.why = "notconverged") => fn.it = 50
  /\ (fn.pc = "idle" /\ fn.why = "done") => fn.Mres = "le"

C13_Step ==
  /\ (fn.W /\ ~fn'.W) => (fn.alive /\ ~fn'.alive)
  /\ (~fn.W /\ fn'.W) => (fn.pc = "idle" /\ fn'.pc = "iter" /\ fn.alpha # 1)
  /\ (fn.pc = "idle" /\ fn'.pc = "iter") => (fn'.W <=> (fn.W \/ fn.alpha # 1))

PosIdx == {i \in 1..Len(svd.eigs) : svd.eigs[i] > 0}

\* position of the k-th positive eigenvalue
KthPos(k) == CHOOSE i \in PosIdx : Cardinality({j \in PosIdx : j <= i}) = k

\* C14 as stated: the singular values are the positive eigenvalues themselves
C14_Original ==
  svd.state = "solved" =>
    /\ svd.nconv = Cardinality(PosIdx) /\ svd.nconv <= Len(svd.eigs)
    /\ Len(svd.sigma) = svd.nconv
    /\ \A k \in 1..svd.nconv : svd.sigma[k] = <<svd.eigs[KthPos(k)], 1>>

\* C14: after SVDSolve_Cyclic the singular values correspond one to one, in
\* the eigensolver's order, to the positive converged eigenvalues: the k-th
\* singular value is the k-th positive eigenvalue, or its reciprocal for a
\* generalized problem with which = SMALLEST; eigenvalues that are not
\* positive are discarded, so nconv is the number of positive ones and never
\* exceeds the eigensolver's nconv.
C14_Theorem ==
  svd.state = "solved" =>
    /\ svd.nconv = Cardinality(PosIdx) /\ svd.nconv <= Len(svd.eigs)
    /\ Len(svd.sigma) = svd.nconv
    /\ \A k \in 1..svd.nconv :
         svd.sigma[k] = IF svd.isgeneralized /\ svd.which = "SVD_SMALLEST"
                        THEN <<1, svd.eigs[KthPos(k)]>>
                        ELSE <<svd.eigs[KthPos(k)], 1>>

\* a generalized problem for the smallest values: of the eigenvalues (-2, 2)
\* the first was discarded and the second reported as 1/2
C14_Witness ==
  /\ svd.state = "solved" /\ svd.isgeneralized /\ svd.which = "SVD_SMALLEST"
  /\ svd.eigs = <<-2, 2>> /\ svd.sigma = <<<<1, 2>>>> /\ svd.nconv = 1

\* C15 as stated: on a zero matrix every returned singular value is 0 and the
\* reason is ConvergedTolerance
C15_Original ==
  (svd.state = "solved" /\ svd.svals = {}) =>
    /\ \A k \in 1..Len(svd.sigma) : svd.sigma[k] = <<0, 1>>
    /\ svd.reason = "EPS_CONVERGED_TOL"

\* C15: on a zero matrix SVDSolve_Cyclic returns no singular value at all
\* (no eigenvalue of C is positive, nconv = 0) and reports the reason of the
\* embedded eigensolver, whatever it is.
C15_Theorem ==
  (svd.state = "solved" /\ svd.svals = {}) =>
    /\ svd.nconv = 0 /\ svd.sigma = <<>>
    /\ svd.reason = svd.epsreason

\* zero matrix: the eigensolver returned two zero eigenvalues and did not
\* converge; nothing is returned
C15_Witness ==
  /\ svd.state = "solved" /\ svd.svals = {} /\ svd.eigs = <<0, 0>>
  /\ svd.nconv = 0 /\ svd.reason = "EPS_DIVERGED_ITS"

\* C16 as stated: between two calls of MatMult_Cyclic no array is placed on a
\* work vector and no array of x or y is borrowed
C16_Original ==
  svd.placed = {} /\ svd.bx = 0 /\ svd.by = 0

\* C17 as stated: after a successful setup the custom test is registered
\* exactly when the convergence criterion is the norm-relative one
C17_Original ==
  svd.state = "setup" =>
    (svd.epstest = "EPSConv_Cyclic" <=> svd.conv = "SVD_CONV_NORM")

\* C17: SVDSetUp_Cyclic registers EPSConv_Cyclic, which divides the residual
\* by max(nrma, nrmb), only for a generalized problem with norm-relative
\* convergence and an eigensolver not supplied by the user.  For a standard
\* problem with norm-relative convergence, and for the absolute and relative
\* criteria, the eigensolver's native test of the same name is selected; the
\* maxit and user criteria make the setup fail; an eigensolver supplied by the
\* user keeps its own test.
C17_Theorem ==
  /\ svd.state = "setup" =>
       svd.epstest =
         (IF svd.usereps THEN "EPS_CONV_ABS"
          ELSE CASE svd.conv = "SVD_CONV_ABS" -> "EPS_CONV_ABS"
                 [] svd.conv = "SVD_CONV_REL" -> "EPS_CONV_REL"
                 [] svd.conv = "SVD_CONV_NORM" /\ svd.isgeneralized -> "EPSConv_Cyclic"
                 [] svd.conv = "SVD_CONV_NORM" /\ ~svd.isgeneralized -> "EPS_CONV_NORM"
                 [] OTHER -> "none")
  /\ (svd.state = "initial" /\ svd.ierr # "OK") =>
       (~svd.usereps /\ svd.conv \in {"SVD_CONV_MAXIT", "SVD_CONV_USER"})
  /\ svd.errest # <<0, 1>> =>
       (svd.epstest = "EPSConv_Cyclic" /\ svd.errest[2] = Max(svd.normA, svd.normB))

\* a standard problem with norm-relative convergence has been set up: the
\* eigensolver uses its native norm test
C17_Witness ==
  /\ svd.state = "setup" /\ ~svd.usereps /\ ~svd.isgeneralized
  /\ svd.conv = "SVD_CONV_NORM" /\ svd.epstest = "EPS_CONV_NORM"

(***************************************************************************)
(* Claims on the Krylov routines                                           *)
(***************************************************************************)
\* C18 as stated: a run that broke down at step j has M = j+1, the flag set
\* and no step after j; a run that did not break down has made the steps
\* k..m-1, has M = m and the flag false
C18_Original ==
  (arn.pc = "done" /\ arn.ierr = "OK") =>
    IF arn.brokeAt # -1
    THEN arn.M = arn.brokeAt + 1 /\ arn.breakdown /\ arn.steps = arn.k..arn.brokeAt
    ELSE arn.M = arn.m /\ ~arn.breakdown /\ arn.steps = arn.k..(arn.m - 1)

\* C19 as stated: the solver reports DivergedBreakdown only after a second
\* breakdown of the orthogonalization, never on the first
C19_Original ==
  nep.reason = "NEP_DIVERGED_BREAKDOWN" => nep.breakdowns >= 2

\* C20: in real arithmetic, for every complex conjugate pair at indices p and
\* p+1 that the convergence loop has met, both indices carry the same
\* residual estimate, the convergence test was applied once for the pair, and
\* the loop went on after p+1 without visiting it.
C20_Theorem ==
  \A p \in kc.visits :
    kc.struct[p] = "c1" =>
      /\ kc.errest[p] # -1 /\ kc.errest[p + 1] = kc.errest[p]
      /\ (p + 1) \notin kc.visits /\ kc.k >= p + 2
      /\ kc.routine # "ArnoldiResiduals" =>
           Cardinality({i \in 1..Len(kc.tested) : kc.tested[i] \in {p, p + 1}}) = 1

\* EPSKrylovConvergence has met a pair at 1 and 2 and went on to index 3
C20_Witness ==
  /\ kc.routine = "EPSKrylovConvergence" /\ kc.pc = "done" /\ kc.nv = 4
  /\ kc.struct[1] = "c1" /\ kc.visits = {0, 1, 3} /\ kc.tested = <<0, 1, 3>>
  /\ kc.errest[1] = kc.errest[2] /\ kc.errest[1] # kc.errest[3]

(***************************************************************************)
(* Claims on the NEP / PEP solve life cycle                                *)
(***************************************************************************)
\* C21 as stated: an accessor succeeds only if the last solve call returned
\* successfully, and with a valid index it then does succeed
C21_Original ==
  slv.last.op \in Accessors =>
    /\ slv.last.ierr = "OK" => slv.lastsolve = "ok"
    /\ (slv.lastsolve = "ok" /\ slv.last.i < slv.nconv) => slv.last.ierr = "OK"

(***************************************************************************)
(* Claims on the eigensolver embedded in SVD cyclic                        *)
(***************************************************************************)
\* C22: once set up, an SVD given its eigensolver through SVDCyclicSetEPS
\* holds that same object, solves with it, and the object carries the
\* which/target, dimensions, tolerance and convergence test the user made;
\* an eigensolver created internally carries the settings derived from the
\* SVD options
C22_Theorem ==
  cyc.state \in {"setup", "solved"} =>
    /\ cyc.usereps => /\ cyc.eps = cyc.given
                      /\ cyc.es = cyc.userset
    /\ ~cyc.usereps => /\ cyc.eps = "internal"
                       /\ cyc.es = DerivedEPS
    /\ cyc.state = "solved" => cyc.solvedwith = cyc.eps

\* a user's eigensolver, set up and solved with, whose settings differ from
\* everything the SVD options would give
C22_Witness ==
  /\ cyc.state = "solved" /\ cyc.usereps /\ cyc.solvedwith = "u2"
  /\ cyc.es.which # DerivedEPS.which /\ cyc.es.nev # DerivedEPS.nev
  /\ cyc.es.conv # DerivedEPS.conv

(***************************************************************************)
(* Claims on STSetShift / STGetShift                                       *)
(***************************************************************************)
\* C23: an STGetShift that directly follows a successful STSetShift(sigma),
\* in any ST state, returns sigma
C23_Theorem ==
  [][(stret.op = "STSetShift" /\ stret.ierr = "OK" /\ stret'.op = "STGetShift")
       => (stret'.ierr = "OK" /\ stret'.arg = stret.arg)]_vars

\* STGetShift has returned the largest shift on a set-up ST whose shift
\* was given by STSetShift and differs from the default shift
C23_Witness ==
  /\ stret.op = "STGetShift" /\ stret.arg = MaxShift
  /\ st.state = "SETUP" /\ st.sigma_set /\ st.defsigma # MaxShift

\* C24 as stated: in every accepted configuration the solve ends with a
\* converged/diverged reason and never with an out-of-range column access
C24_Original ==
  /\ nep.ierr # "PETSC_ERR_ARG_OUTOFRANGE"
  /\ nep.pc = "done" => nep.reason # "NEP_CONVERGED_ITERATING"

\* C25 as stated: EPSSolve_CISS reports ConvergedTolerance only if the
\* largest residual over the reported eigenpairs is at most tol
C25_Original ==
  eps.reason = "EPS_CONVERGED_TOL" => (eps.nconv = 0 \/ loc.errok)

(***************************************************************************)
(* Claims on the CISS option setters                                       *)
(***************************************************************************)
\* C26 as stated: a setter call that fails with an argument error leaves
\* every field of the CISS context as it was before the call
C26_Original ==
  [][cs'.ierr # "OK" => cs'.set = cs.set]_vars

\* C27 as stated: from the defaults and after any sequence of
\* EPSCISSSetSizes calls, N is even and N >= 2, 1 <= M <= N, 1 <= L <= L_max
C27_Original ==
  /\ cs.set.N % 2 = 0 /\ cs.set.N >= 2
  /\ 1 <= cs.set.M /\ cs.set.M <= cs.set.N
  /\ 1 <= cs.set.L /\ cs.set.L <= cs.set.L_max

(***************************************************************************)
(* Claims on the value returned by the convergence loops                   *)
(***************************************************************************)
KCReturned ==
  kc.pc = "done" /\ kc.routine \in {"EPSKrylovConvergence", "PEPKrylovConvergence"}

\* the last index of the range starts a conjugate pair that the loop sees
KCLastIsPair ==
  LET last == kc.kini + kc.nits - 1
  IN  ~kc.issym /\ last < kc.nv - 1 /\ kc.struct[last] = "c1"

\* errest is written at or beyond kini+nits only for the second member of a
\* pair that starts below kini+nits inside the nv processed vectors
KCWrites ==
  \A i \in DOMAIN kc.errest :
    (i >= kc.kini + kc.nits /\ kc.errest[i] # -1) =>
      (i = kc.kini + kc.nits /\ i < kc.nv /\ kc.struct[i] = "c2")

\* C28 as stated: kout is the first index where the test failed, or
\* kini+nits if it failed nowhere, so kini <= kout <= kini+nits
C28_Original ==
  KCReturned =>
    /\ kc.kout = IF kc.marker # -1 THEN kc.marker ELSE kc.kini + kc.nits
    /\ kc.kini <= kc.kout /\ kc.kout <= kc.kini + kc.nits
    /\ KCWrites

\* C28 amended: kout is the first index where the test failed; if it failed
\* nowhere kout is kini+nits, or kini+nits+1 when the last index of the
\* range starts a conjugate pair; every index in [kini, kout) was met by the
\* loop or is the second member of a pair, and the writes to errest beyond
\* the range are those of such a second member
C28_Theorem ==
  KCReturned =>
    /\ kc.kout = IF kc.marker # -1 THEN kc.marker
                 ELSE IF KCLastIsPair THEN kc.kini + kc.nits + 1
                 ELSE kc.kini + kc.nits
    /\ kc.kini <= kc.kout /\ kc.kout <= kc.kini + kc.nits + 1 /\ kc.kout <= kc.nv
    /\ \A i \in kc.kini..(kc.kout - 1) : i \in kc.visits \/ kc.struct[i] = "c2"
    /\ KCWrites

\* the test failed nowhere and the last index of the range started a pair
C28_Witness ==
  /\ KCReturned /\ kc.marker = -1 /\ KCLastIsPair
  /\ kc.kout = kc.kini + kc.nits + 1 /\ kc.nits >= 2

(***************************************************************************)
(* Claims on the active window of a BV                                     *)
(***************************************************************************)
\* C29 as stated: the active window always satisfies 0 <= l <= k <= m, and a
\* BVSetActiveColumns call whose arguments would give l > k fails
C29_Original ==
  /\ 0 <= act.l /\ act.l <= act.k /\ act.k <= act.m
  /\ (act.op = "BVSetActiveColumns" /\ act.a >= 0 /\ act.b >= 0 /\ act.a > act.b)
       => act.ierr # "OK"

(***************************************************************************)
(* Claims on the transfer of the initial subspaces                         *)
(***************************************************************************)
\* C30 as stated: every array is restored on the vector it was obtained
\* from, before that vector is destroyed or replaced, and after the
\* transfer no vector has an array outstanding
C30_Original ==
  /\ isp.misrestored = {}
  /\ isp.lost = {}
  /\ (isp.pc = "done" /\ isp.ierr = "OK") => isp.out = {}

====
